---- MODULE Spec2Model ----
(***************************************************************************)
(* Model of the pro-rata billing helpers of OrangeCompanyAdvanced          *)
(* (shared/prorata.ts and client/src/lib/proRata.ts).                      *)
(*                                                                         *)
(* A JavaScript Date is modelled by its time value.  The unit of time is   *)
(* the hour instead of the millisecond (every time value the helpers meet  *)
(* is a whole number of hours), so DAY is 24 where the source has          *)
(* 24 * 60 * 60 * 1000.  Date.UTC and the getUTC* getters are modelled by  *)
(* the day-number arithmetic of ECMAScript (MakeDay, YearFromTime,         *)
(* MonthFromTime, DateFromTime), so that building a date from fields and   *)
(* reading the fields back are two different computations.                 *)
(***************************************************************************)
EXTENDS Integers, Sequences, FiniteSets, TLC

\* A caller of the pro-rata helpers: its date, its anchor day and the call
\* it is making.
VARIABLES pivot, anchorDay, call

\* The chat endpoint: the clock (Date.now()), the rate limiting map, and for
\* every client the number of its requests that passed checkRateLimit at
\* each of the last instants of the clock that make up one window.
VARIABLES now, rateLimitMap, recent

\* The last request the chat endpoint answered: its client, the record
\* checkRateLimit found for it (rateLimitMap.get(ip)) and whether it was
\* admitted.
VARIABLE request

\* The page (Home): the fragment of the URL without its '#'
\* (window.location.hash.slice(1)), the activeTab and isChatOpen of the app
\* store, whether Home has mounted (its effect has run and its hashchange
\* listener is registered), the hashchange events fired and not yet
\* dispatched, and the last thing that happened to the page.
VARIABLES hash, activeTab, isChatOpen, mounted, hashchange, last

\* The app store (useAppStore): the version of the store that is loaded
\* (the file it comes from), its theme, locale and chatMessages, the item of
\* localStorage under STORAGE_KEY, and the constant stored of the closure of
\* the store (what loadFromStorage returned when the store was created).
VARIABLES version, theme, locale, chatMessages, localStorage, stored

\* Chatbot: its isLoading state and the exchange handleSend is in.
VARIABLES isLoading, exchange

\* The SSE stream of one chat reply: what the server wrote, the bytes on
\* their way, and the values of the read loop of handleSend.
VARIABLE stream

\* The docs store of the server (server/docs.ts): isProd, the docs file
\* (the first of DOCS_FILE_CANDIDATES that exists, or none), and the last
\* call of an exported function with what it returned.
VARIABLES isProd, docsFile, docsCall

\* The calls of upsertDocsFromTitles that are under way at the same time,
\* each with its position and its local values.
VARIABLE upserts

prorataVars == <<pivot, anchorDay, call>>

docsVars == <<isProd, docsFile, docsCall, upserts>>

storeVars == <<version, theme, locale, chatMessages, localStorage, stored>>

chatVars == <<isLoading, exchange>>

sseVars == <<stream>>

homeVars == <<hash, activeTab, isChatOpen, mounted, hashchange, last>>

limiterVars == <<now, rateLimitMap, recent, request>>

vars ==
  <<prorataVars, limiterVars, homeVars, storeVars, chatVars, docsVars,
    sseVars>>

\* Everything but the caller of the pro-rata helpers.
beyondProrata ==
  <<limiterVars, homeVars, storeVars, chatVars, docsVars,
    sseVars>>

\* Everything but the chat endpoint.
beyondLimiter ==
  <<prorataVars, homeVars, storeVars, chatVars, docsVars,
    sseVars>>

\* Everything but the page.
beyondHome ==
  <<prorataVars, limiterVars, storeVars, chatVars, docsVars,
    sseVars>>

\* Everything but the app store, and everything but the app store and
\* Chatbot.
beyondStore ==
  <<prorataVars, limiterVars, homeVars, chatVars, docsVars,
    sseVars>>

beyondChat ==
  <<prorataVars, limiterVars, homeVars, docsVars,
    sseVars>>

\* Everything but the docs store.
beyondDocs ==
  <<prorataVars, limiterVars, homeVars, storeVars, chatVars,
    sseVars>>

(***************************************************************************)
(* Bounds of the model.                                                    *)
(***************************************************************************)
\* Pivot dates range over every day of NumYears years starting with 2024
\* (a leap year; the next years are not).
NumYears == 2

Years == 2024 .. (2024 + NumYears - 1)

\* Time of day of a pivot, in hours: midnight and noon.
PivotHours == {0, 12}

AnchorDays == 1 .. 31

\* Monthly amounts in thousandths of a dinar (30.000, 100.000, 0).
Amounts == {0, 30000, 100000}

Modes == {"remaining", "elapsed"}

\* The clients of the chat endpoint, and the last instant of the clock.
IPs == {"10.0.0.1", "10.0.0.2"}

MaxNow == 3

FormatModes == {"script", "totals", "vat"}

Langs == {"ar", "en"}

\* The amounts of the VAT views, in thousandths of a dinar (0.005, 7.000,
\* 30.000, 100.000 and 116.000), their activation dates (days of October
\* 2025, at the hours of PivotHours) and anchor days.
VatAmounts == {5, 7000, 30000, 100000, 116000}

VatPivotDates == {10, 14, 15, 20}

VatAnchorDays == {10, 15}

\* Amounts and anchor days a caller may pass, the ones outside the documented
\* ranges (a negative amount, an anchor day outside 1..31) included.
AnyAmounts == {-5000, 0, 30000}

AnyAnchorDays == {-1, 0, 1, 15, 31, 32}

\* The fragments a URL of the page may carry: none, the three tabs, and two
\* that name no tab.  At most MaxEvents hashchange events wait at a time.
Hashes == {"", "calculator", "pro-rata", "assistant", "settings", "Assistant"}

MaxEvents == 2

\* The versions of the app store, the themes and the texts of the chat (a
\* content is a sequence of pieces of text, the empty sequence the empty
\* string).  At most MaxMessages messages are added with addChatMessage and
\* at most MaxExchanges exchanges are made with handleSend; a streamed
\* reply has at most MaxChunks pieces.
Versions == {"client/src/lib/store.ts", "part_010"}

Themes == {"orange", "dark", "blossom", "mint"}

UserTexts == {<<"hi">>, <<"price?">>}

ChunkTexts == {"a", "b"}

MaxMessages == 2

MaxExchanges == 2

MaxChunks == 2

\* The content deltas and the keep-alive comments of one streamed reply.
MaxDeltas == 2

MaxKeepAlives == 1

\* The texts typed into the amount field of the pro-rata calculator
\* component (nothing, 30, 7.5 and 7,5).
AmountTexts == {<<>>, <<"3", "0">>, <<"7", ".", "5">>, <<"7", ",", "5">>}

\* Base prices of the price calculator: the multiples of PriceStep
\* thousandths (0.995, 1.990, ...) up to MaxPrice of them, and two negative
\* ones.
MaxPrice == 100

PriceStep == 995

(***************************************************************************)
(* Arithmetic helpers.                                                     *)
(***************************************************************************)
Max(a, b) == IF a >= b THEN a ELSE b

Min(a, b) == IF a <= b THEN a ELSE b

\* Math.round(n / d) for d > 0: the nearest integer, a half rounding up.
MathRound(n, d) == (2 * n + d) \div (2 * d)

(***************************************************************************)
(* The Date built-in: time values in hours since 1970-01-01T00:00Z.        *)
(***************************************************************************)
DAY == 24

DaysInYear(y) ==
  IF y % 4 # 0 THEN 365
  ELSE IF y % 100 # 0 THEN 366
  ELSE IF y % 400 # 0 THEN 365 ELSE 366

\* Day number of January 1st of year y.
DayFromYear(y) ==
  365 * (y - 1970) + ((y - 1969) \div 4) - ((y - 1901) \div 100)
    + ((y - 1601) \div 400)

\* Day within the year on which month m (0..11) starts; m = 12 is the
\* start of the next year.
CumDays == <<0, 31, 59, 90, 120, 151, 181, 212, 243, 273, 304, 334, 365>>

MonthStart(y, m) ==
  CumDays[m + 1] + (IF m >= 2 /\ DaysInYear(y) = 366 THEN 1 ELSE 0)

\* Date.UTC(year, month, day): month and day may be out of range and are
\* carried over (month -1 is December of the year before, day 0 is the last
\* day of the month before).
DateUTC(year, month, day) ==
  LET ym == year + (month \div 12)
      mn == month % 12
  IN (DayFromYear(ym) + MonthStart(ym, mn) + day - 1) * DAY

\* The day number of a time value (floor of t / DAY).
DayOf(t) == t \div DAY

RECURSIVE YearDown(_, _)
YearDown(y, d) == IF DayFromYear(y) <= d THEN y ELSE YearDown(y - 1, d)

\* YearFromTime, MonthFromTime and DateFromTime of a day number.
YearFromDay(d) == YearDown(1970 + (d \div 365) + 1, d)

MonthFromDay(d) ==
  LET y == YearFromDay(d)
      diy == d - DayFromYear(y)
  IN CHOOSE m \in 0 .. 11 : MonthStart(y, m) <= diy /\ diy < MonthStart(y, m + 1)

DateFromDay(d) ==
  LET y == YearFromDay(d)
  IN d - DayFromYear(y) - MonthStart(y, MonthFromDay(d)) + 1

\* The three fields of every day the model can meet (the years of the
\* pivots and one year on either side), computed once.
CalendarDays == DayFromYear(2023) .. (DayFromYear(2024 + NumYears + 1) - 1)

Calendar ==
  [d \in CalendarDays |->
     [year |-> YearFromDay(d), month |-> MonthFromDay(d), date |-> DateFromDay(d)]]

getUTCFullYear(t) == Calendar[DayOf(t)].year

getUTCMonth(t) == Calendar[DayOf(t)].month

getUTCDate(t) == Calendar[DayOf(t)].date

getTime(t) == t

(***************************************************************************)
(* The Number built-in: IEEE 754 binary64 with round-to-nearest-even, for  *)
(* the values the helpers meet (zero and positive normal numbers).         *)
(*                                                                         *)
(* A number is [m, e] and stands for m * 2^e, where m is a natural number  *)
(* of exactly 53 bits, or zero (m empty, e = 0).  Natural numbers of any   *)
(* size are sequences of limbs below LIMB, the least significant first,    *)
(* without leading zero limbs.                                             *)
(***************************************************************************)
LIMB == 16384

LimbBits == 14

Precision == 53

RECURSIVE BigOf(_)
BigOf(n) == IF n = 0 THEN <<>> ELSE <<n % LIMB>> \o BigOf(n \div LIMB)

\* a without its leading zero limbs.
BigNorm(a) ==
  IF a = <<>> \/ \A j \in 1 .. Len(a) : a[j] = 0 THEN <<>>
  ELSE SubSeq(a, 1, CHOOSE i \in 1 .. Len(a) :
                      a[i] # 0 /\ \A m \in i + 1 .. Len(a) : a[m] = 0)

\* a[i], zero outside 1 .. Len(a).
LimbAt(a, i) == IF 1 <= i /\ i <= Len(a) THEN a[i] ELSE 0

\* The limbs of the sum of the t[j] * LIMB^(j - 1), without what goes
\* beyond the last of them, for t[j] < 2 * LIMB - 1 (one more for t[1]): a
\* carry of one comes into a limb from the nearest limb below it that is
\* not LIMB - 1, if that limb is LIMB or more.
BigRippled(t) ==
  IF t = <<>> THEN <<>>
  ELSE BigNorm([j \in 1 .. Len(t) |->
                  (t[j] + (IF \E i \in 1 .. j - 1 :
                                /\ t[i] >= LIMB
                                /\ \A m \in i + 1 .. j - 1 : t[m] = LIMB - 1
                           THEN 1 ELSE 0)) % LIMB])

\* The natural number with the columns cols, the least significant first:
\* the sum of the cols[j] * LIMB^(j - 1), for columns below 2^30.  A column
\* is spread over three limbs (p is cols between three zeros below and
\* above), which leaves every limb at most LIMB + 1.
BigOfColumns(cols) ==
  LET Spread(p) ==
        BigRippled(
          [j \in 1 .. Len(cols) + 2 |->
             (((p[j + 3] % LIMB) + ((p[j + 2] \div LIMB) % LIMB)
                 + (p[j + 1] \div (LIMB * LIMB))) % LIMB)
               + (((p[j + 2] % LIMB) + ((p[j + 1] \div LIMB) % LIMB)
                     + (p[j] \div (LIMB * LIMB))) \div LIMB)])
  IN IF cols = <<>> THEN <<>>
     ELSE Spread(<<0, 0, 0>> \o cols \o <<0, 0, 0>>)

BigAdd(a, b) ==
  BigRippled([j \in 1 .. Max(Len(a), Len(b)) + 1 |->
                LimbAt(a, j) + LimbAt(b, j)])

\* a - b for a >= b: a plus the complement of b in the limbs of a, which is
\* LIMB^Len(a) too much.
BigSub(a, b) ==
  BigRippled([j \in 1 .. Len(a) |->
                a[j] + (LIMB - 1 - LimbAt(b, j)) + (IF j = 1 THEN 1 ELSE 0)])

\* -1, 0 or 1 as a < b, a = b or a > b: as the highest limbs that differ.
BigCmp(a, b) ==
  LET Sign(i) == IF a[i] < b[i] THEN -1 ELSE 1
  IN IF Len(a) < Len(b) THEN -1
     ELSE IF Len(a) > Len(b) THEN 1
     ELSE IF \A j \in 1 .. Len(a) : a[j] = b[j] THEN 0
     ELSE Sign(CHOOSE i \in 1 .. Len(a) :
                 a[i] # b[i] /\ \A m \in i + 1 .. Len(a) : a[m] = b[m])

\* a * k for 0 <= k < LIMB.
BigMulSmall(a, k) == BigOfColumns([j \in 1 .. Len(a) |-> a[j] * k])

\* The j-th column of a * b: the products of the limbs of a up to the i-th
\* with the limbs of b that stand j - 1 places above the lowest together
\* with them (at most seven products that are not zero).
RECURSIVE BigColumn(_, _, _, _)
BigColumn(a, b, j, i) ==
  IF i = 0 THEN 0
  ELSE LimbAt(a, i) * LimbAt(b, j - i + 1) + BigColumn(a, b, j, i - 1)

BigMul(a, b) ==
  IF a = <<>> \/ b = <<>> THEN <<>>
  ELSE BigOfColumns([j \in 1 .. Len(a) + Len(b) - 1 |->
                       BigColumn(a, b, j, Len(a))])

IntPow2(n) == 2 ^ n

\* The number of bits of a limb.
IntBitLen(n) ==
  IF n = 0 THEN 0
  ELSE CHOOSE k \in 1 .. LimbBits : IntPow2(k - 1) <= n /\ n < IntPow2(k)

BigBitLen(a) ==
  IF a = <<>> THEN 0 ELSE LimbBits * (Len(a) - 1) + IntBitLen(a[Len(a)])

BigPow2(s) ==
  [i \in 1 .. (s \div LimbBits) |-> 0] \o <<IntPow2(s % LimbBits)>>

\* The shifts take every limb of the result from two neighbouring limbs of
\* a, for a shift of k whole limbs and t bits more.
\* a * 2^s.
BigShiftLeft(a, s) ==
  LET k == s \div LimbBits
      t == s % LimbBits
  IN IF a = <<>> THEN a
     ELSE BigNorm([j \in 1 .. k |-> 0]
                    \o [j \in 1 .. Len(a) + 1 |->
                          (LimbAt(a, j) % IntPow2(LimbBits - t)) * IntPow2(t)
                            + (LimbAt(a, j - 1) \div IntPow2(LimbBits - t))])

\* floor(a / 2^s).
BigShiftRight(a, s) ==
  LET k == s \div LimbBits
      t == s % LimbBits
  IN IF k >= Len(a) THEN <<>>
     ELSE BigNorm(<<>>
                    \o [j \in 1 .. Len(a) - k |->
                          (a[j + k] \div IntPow2(t))
                            + (LimbAt(a, j + k + 1) % IntPow2(t))
                                * IntPow2(LimbBits - t)])

\* a % 2^s.
BigLowBits(a, s) ==
  LET k == s \div LimbBits
      t == s % LimbBits
  IN BigNorm(<<>>
               \o [j \in 1 .. Min(Len(a), k + 1) |->
                     IF j = k + 1 THEN a[j] % IntPow2(t) ELSE a[j]])

BigIsOdd(a) == a # <<>> /\ a[1] % 2 = 1

\* The value of a natural number that fits an integer of the model.
RECURSIVE BigToInt(_)
BigToInt(a) ==
  IF a = <<>> THEN 0 ELSE a[1] + LIMB * BigToInt(SubSeq(a, 2, Len(a)))

Zero == [m |-> <<>>, e |-> 0]

\* The number nearest to n * 2^e (and a bit more when sticky), n > 0: the
\* result of an operation whose exact value that is.  Ties go to the even
\* mantissa.
RoundToNumber(n, e, sticky) ==
  LET len == BigBitLen(n)
  IN IF len <= Precision
     THEN [m |-> BigShiftLeft(n, Precision - len), e |-> e - (Precision - len)]
     ELSE LET s == len - Precision
              q == BigShiftRight(n, s)
              r == BigLowBits(n, s)
              c == BigCmp(r, BigPow2(s - 1))
              up == c > 0 \/ (c = 0 /\ (sticky \/ BigIsOdd(q)))
              q1 == IF up THEN BigAdd(q, <<1>>) ELSE q
          IN IF BigBitLen(q1) > Precision
             THEN [m |-> BigShiftRight(q1, 1), e |-> e + s + 1]
             ELSE [m |-> q1, e |-> e + s]

\* The number of a natural number below 2^31.
NumberOf(n) == IF n = 0 THEN Zero ELSE RoundToNumber(BigOf(n), 0, FALSE)

NumMul(a, b) ==
  IF a = Zero \/ b = Zero THEN Zero
  ELSE RoundToNumber(BigMul(a.m, b.m), a.e + b.e, FALSE)

NumAdd(a, b) ==
  IF a = Zero THEN b
  ELSE IF b = Zero THEN a
  ELSE LET e0 == Min(a.e, b.e)
       IN RoundToNumber(BigAdd(BigShiftLeft(a.m, a.e - e0),
                               BigShiftLeft(b.m, b.e - e0)), e0, FALSE)

\* -1, 0 or 1 as a < b, a = b or a > b.
NumCmp(a, b) ==
  IF a = Zero \/ b = Zero
  THEN (IF a.m = b.m THEN 0 ELSE IF a.m = <<>> THEN -1 ELSE 1)
  ELSE LET e0 == Min(a.e, b.e)
       IN BigCmp(BigShiftLeft(a.m, a.e - e0), BigShiftLeft(b.m, b.e - e0))

\* a - b for a >= b.
NumSub(a, b) ==
  IF a = Zero \/ b = Zero THEN a
  ELSE LET e0 == Min(a.e, b.e)
           d == BigSub(BigShiftLeft(a.m, a.e - e0), BigShiftLeft(b.m, b.e - e0))
       IN IF d = <<>> THEN Zero ELSE RoundToNumber(d, e0, FALSE)

\* Long division, one limb of the quotient per step from the top limb of n
\* down: quotient and remainder of n by d, for a d whose top limb is at
\* least LIMB / 2.  The quotient limb is estimated from the top limbs of the
\* running remainder and is at most two above the true one.
\* (q holds the quotient limbs found so far and rem the running remainder;
\* the guard of a step names the quotient limb, what it takes and what is
\* left, so that each is evaluated there, before the next step starts.)
RECURSIVE BigDivFrom(_, _, _, _, _)
BigDivFrom(n, d, i, rem, q) ==
  LET x == BigNorm(<<n[i]>> \o rem)
      top == LimbAt(x, Len(d) + 1) * LIMB + LimbAt(x, Len(d))
      guess == Min(LIMB - 1, top \div d[Len(d)])
      c == CHOOSE k \in Max(0, guess - 2) .. guess :
             /\ BigCmp(BigMulSmall(d, k), x) <= 0
             /\ BigCmp(BigMulSmall(d, k + 1), x) > 0
      taken == BigMulSmall(d, c)
      left == BigSub(x, taken)
  IN CASE i = 0 -> [q |-> BigNorm(q), r |-> rem]
       [] /\ i > 0
          /\ x = x
          /\ c = c
          /\ taken = taken
          /\ left = left
        -> BigDivFrom(n, d, i - 1, left, <<c>> \o q)

\* The top Len(d) - 1 limbs of n are below d: they are the first running
\* remainder, and the quotient limbs they would give are zero.
BigDiv(n, d) ==
  IF Len(n) < Len(d) THEN [q |-> <<>>, r |-> n]
  ELSE BigDivFrom(n, d, Len(n) - Len(d) + 1,
                  SubSeq(n, Len(n) - Len(d) + 2, Len(n)), <<>>)

\* a / b for b > 0: the quotient of the mantissas to at least Precision + 2
\* bits and whether anything is left, rounded once.  The divisor mantissa is
\* scaled to whole limbs (Precision + GuardBits bits) and the dividend by
\* QuotientBits more.
GuardBits == 3

QuotientBits == 56

NumDiv(a, b) ==
  IF a = Zero \/ b = Zero THEN Zero
  ELSE LET Rounded(res) ==
             IF res.q = <<>> THEN Zero
             ELSE RoundToNumber(res.q, a.e - b.e - QuotientBits, res.r # <<>>)
       IN Rounded(BigDiv(BigShiftLeft(a.m, GuardBits + QuotientBits),
                         BigShiftLeft(b.m, GuardBits)))

\* The digits of a natural number, at least width of them.
DigitChars == <<"0", "1", "2", "3", "4", "5", "6", "7", "8", "9">>

RECURSIVE Digits(_, _)
Digits(n, width) ==
  IF n < 10 /\ width <= 1 THEN <<DigitChars[n + 1]>>
  ELSE Digits(n \div 10, width - 1) \o <<DigitChars[(n % 10) + 1]>>

\* x * scale rounded to the nearest integer, a half rounding up, for a
\* number x below 2^31 / scale and scale < LIMB (Number.prototype.toFixed:
\* the n for which n / scale - x is as close to zero as possible, the larger
\* n if there are two).
Scaled(x, scale) ==
  IF x = Zero THEN 0
  ELSE LET n == BigMulSmall(x.m, scale)
       IN IF x.e >= 0 THEN BigToInt(BigShiftLeft(n, x.e))
          ELSE LET s == 0 - x.e
                   q == BigShiftRight(n, s)
                   r == BigLowBits(n, s)
               IN BigToInt(q) + (IF BigCmp(r, BigPow2(s - 1)) >= 0 THEN 1 ELSE 0)

\* x.toFixed(3) and x.toFixed(2), as the sequence of their characters.
toFixed3(x) ==
  LET Rendered(n) ==
        IF n = 0 THEN <<"0", ".", "0", "0", "0">>
        ELSE Digits(n \div 1000, 1) \o <<".">> \o Digits(n % 1000, 3)
  IN Rendered(Scaled(x, 1000))

toFixed2(x) ==
  LET Rendered(n) ==
        IF n = 0 THEN <<"0", ".", "0", "0">>
        ELSE Digits(n \div 100, 1) \o <<".">> \o Digits(n % 100, 2)
  IN Rendered(Scaled(x, 100))

(***************************************************************************)
(* api/chat.ts and server/routes.ts: the rate limit of the chat endpoint.  *)
(* The unit of the clock is 30 seconds, so RATE_LIMIT_WINDOW is 2 where    *)
(* the source has 60000 milliseconds.                                      *)
(***************************************************************************)
RATE_LIMIT_WINDOW == 2

RATE_LIMIT_MAX_REQUESTS == 10

\* The server after start: the map is empty and no request has passed.
ServerStarted ==
  /\ now = 0
  /\ rateLimitMap = <<>>
  /\ recent = [ip \in IPs |-> [i \in 1 .. RATE_LIMIT_WINDOW |-> 0]]
  /\ request = [ip |-> "none"]

\* Mutant of checkRateLimit: a rejected request is counted too.
checkRateLimit_countsRejected(ip) ==
  IF ip \notin DOMAIN rateLimitMap \/ now > rateLimitMap[ip].resetTime
  THEN [returns |-> TRUE,
        map |-> (ip :> [count |-> 1, resetTime |-> now + RATE_LIMIT_WINDOW])
                  @@ rateLimitMap]
  ELSE IF rateLimitMap[ip].count >= RATE_LIMIT_MAX_REQUESTS
  THEN [returns |-> FALSE,
        map |-> [rateLimitMap EXCEPT ![ip].count = @ + 1]]
  ELSE [returns |-> TRUE,
        map |-> [rateLimitMap EXCEPT ![ip].count = @ + 1]]

\* Mutant of checkRateLimit: the limit is tested with > instead of >=.
checkRateLimit_oneMore(ip) ==
  IF ip \notin DOMAIN rateLimitMap \/ now > rateLimitMap[ip].resetTime
  THEN [returns |-> TRUE,
        map |-> (ip :> [count |-> 1, resetTime |-> now + RATE_LIMIT_WINDOW])
                  @@ rateLimitMap]
  ELSE IF rateLimitMap[ip].count > RATE_LIMIT_MAX_REQUESTS
  THEN [returns |-> FALSE, map |-> rateLimitMap]
  ELSE [returns |-> TRUE,
        map |-> [rateLimitMap EXCEPT ![ip].count = @ + 1]]

\* checkRateLimit(ip): what it returns and the map it leaves.
checkRateLimit(ip) ==
  IF ip \notin DOMAIN rateLimitMap \/ now > rateLimitMap[ip].resetTime
  THEN [returns |-> TRUE,
        map |-> (ip :> [count |-> 1, resetTime |-> now + RATE_LIMIT_WINDOW])
                  @@ rateLimitMap]
  ELSE IF rateLimitMap[ip].count >= RATE_LIMIT_MAX_REQUESTS
  THEN [returns |-> FALSE, map |-> rateLimitMap]
  ELSE [returns |-> TRUE,
        map |-> [rateLimitMap EXCEPT ![ip].count = @ + 1]]

\* The caller of the pro-rata helpers while nobody calls them.
\* The page before it is opened: the initial state of the app store
\* (client/src/lib/store.ts), nothing mounted.
PageNotOpened ==
  /\ hash = ""
  /\ activeTab = "calculator"
  /\ isChatOpen = FALSE
  /\ mounted = FALSE
  /\ hashchange = 0
  /\ last = [event |-> "none"]

\* No item under STORAGE_KEY (localStorage.getItem returns null).
NoItem == [item |-> "none"]

\* loadFromStorage(STORAGE_KEY, def).
loadFromStorage(item, def) == IF item # NoItem THEN item ELSE def

\* The default of the store for a navigator.language that starts with "ar"
\* or does not.
DefaultStored(arabic) ==
  [theme |-> "orange",
   locale |-> IF arabic THEN "ar" ELSE "en",
   chatMessages |-> <<>>]

NoExchange == [phase |-> "none"]

\* No chat reply is being streamed.
NoStream ==
  [phase |-> "none", deltas |-> <<>>, keepAlives |-> 0, ended |-> FALSE,
   wire |-> <<>>, accumulated |-> <<>>, streamDone |-> FALSE,
   content |-> <<>>]

\* The app store created in an empty browser and left alone.
StoreNotUsed ==
  /\ version = "client/src/lib/store.ts"
  /\ localStorage = NoItem
  /\ stored = DefaultStored(FALSE)
  /\ theme = "orange"
  /\ locale = "en"
  /\ chatMessages = <<>>
  /\ isLoading = FALSE
  /\ exchange = NoExchange
  /\ stream = NoStream

\* No docs file exists (fs.existsSync is false for every candidate).
NoDocsFile == [exists |-> FALSE]

\* The chat requests handled at the same time.
MaxHandlers == 2

Handlers == 1 .. MaxHandlers

\* A handler that has not called upsertDocsFromTitles.
NotCalled ==
  [pc |-> "idle", titles |-> <<>>, before |-> <<>>, docs |-> <<>>,
   merged |-> [list |-> <<>>, added |-> <<>>, updated |-> <<>>],
   returns |-> [added |-> <<>>, updated |-> <<>>]]

NoUpserts == [h \in Handlers |-> NotCalled]

\* A development server that has not used its docs store.
DocsNotUsed ==
  /\ isProd = FALSE
  /\ docsFile = NoDocsFile
  /\ docsCall = [op |-> "none"]
  /\ upserts = NoUpserts

NoCaller ==
  /\ pivot = 0
  /\ anchorDay = 15
  /\ call = [op |-> "none"]

InitLimiter ==
  /\ NoCaller
  /\ ServerStarted
  /\ PageNotOpened
  /\ StoreNotUsed
  /\ DocsNotUsed

\* A POST /api/chat of the client ip: the request is answered 429 when
\* checkRateLimit returns false and is handled otherwise.
ChatRequest ==
  \E ip \in IPs :
    LET checked == checkRateLimit(ip)
    IN /\ rateLimitMap' = checked.map
       /\ request' = [ip |-> ip,
                       record |-> IF ip \in DOMAIN rateLimitMap
                                  THEN rateLimitMap[ip]
                                  ELSE [count |-> 0, resetTime |-> 0],
                       admitted |-> checked.returns]
       /\ recent' = IF checked.returns
                    THEN [recent EXCEPT ![ip][RATE_LIMIT_WINDOW] = @ + 1]
                    ELSE recent
       /\ UNCHANGED <<now, beyondLimiter>>

\* The clock advances by one unit.
Tick ==
  /\ now < MaxNow
  /\ now' = now + 1
  /\ recent' = [ip \in IPs |->
                  [i \in 1 .. RATE_LIMIT_WINDOW |->
                     IF i < RATE_LIMIT_WINDOW THEN recent[ip][i + 1] ELSE 0]]
  /\ UNCHANGED <<rateLimitMap, request, beyondLimiter>>

NextLimiter ==
  \/ ChatRequest
  \/ Tick

SpecLimiter == InitLimiter /\ [][NextLimiter]_vars

(***************************************************************************)
(* Numbers in the state.  A number the code computes is kept in the state  *)
(* as the expression that computes it, and Number gives its value: the     *)
(* operations are carried out, each rounded, when the number is compared   *)
(* or rendered.                                                            *)
(***************************************************************************)
\* The number n, a natural number.
Whole(n) == [op |-> "whole", n |-> n]

\* The number of the decimal literal k / 1000 (30.000 is Milli(30000)).
Milli(k) == [op |-> "milli", k |-> k]

Quot(a, b) == [op |-> "/", a |-> a, b |-> b]

Prod(a, b) == [op |-> "*", a |-> a, b |-> b]

Sum(a, b) == [op |-> "+", a |-> a, b |-> b]

\* a - b for a >= b.
Diff(a, b) == [op |-> "-", a |-> a, b |-> b]

\* The literal with four decimals that reads k / 10000 (0.4616 is
\* TenThousandth(4616)).
TenThousandth(k) == [op |-> "tenThousandth", k |-> k]

\* Number(a.toFixed(2)): the number rendered with two decimals and read back.
Fixed2(a) == [op |-> "fixed2", a |-> a]

NaN == [op |-> "NaN"]

Infinity == [op |-> "Infinity"]

NegativeInfinity == [op |-> "-Infinity"]

\* The digit a character of a decimal text stands for.
DigitOf(c) == (CHOOSE d \in 1 .. 10 : DigitChars[d] = c) - 1

\* A decimal text read from its i-th character on: the whole number its
\* digits make after the digits read so far (n), and the power of ten its
\* decimals divide it by (scale, 0 before the point).
RECURSIVE ReadDecimalFrom(_, _, _, _)
ReadDecimalFrom(text, i, n, scale) ==
  IF i > Len(text) THEN [n |-> n, scale |-> Max(scale, 1)]
  ELSE IF text[i] = "." THEN ReadDecimalFrom(text, i + 1, n, 1)
  ELSE ReadDecimalFrom(text, i + 1, 10 * n + DigitOf(text[i]), 10 * scale)

\* Number(text) for a decimal text: the number nearest to its value.
StringToNumber(text) ==
  LET Nearest(read) ==
        IF read.n = 0 THEN Zero
        ELSE NumDiv(NumberOf(read.n), NumberOf(read.scale))
  IN IF Len(text) = 0 THEN Zero ELSE Nearest(ReadDecimalFrom(text, 1, 0, 0))

\* Number(text) for a decimal text, and Math.min and Math.max of two
\* numbers.
Parsed(text) == [op |-> "parsed", text |-> text]

MathMin(a, b) == [op |-> "min", a |-> a, b |-> b]

MathMax(a, b) == [op |-> "max", a |-> a, b |-> b]

RECURSIVE Number(_)
Number(x) ==
  CASE x.op = "whole" -> NumberOf(x.n)
    [] x.op = "parsed" -> StringToNumber(x.text)
    [] x.op = "min" ->
         (LET Least(a, b) == IF NumCmp(a, b) <= 0 THEN a ELSE b
          IN Least(Number(x.a), Number(x.b)))
    [] x.op = "max" ->
         (LET Most(a, b) == IF NumCmp(a, b) >= 0 THEN a ELSE b
          IN Most(Number(x.a), Number(x.b)))
    [] x.op = "milli" -> NumDiv(NumberOf(x.k), NumberOf(1000))
    [] x.op = "tenThousandth" -> NumDiv(NumberOf(x.k), NumberOf(10000))
    [] x.op = "fixed2" ->
         (LET Rendered(a) ==
                IF a = Zero THEN Zero ELSE StringToNumber(toFixed2(a))
          IN Rendered(Number(x.a)))
    [] x.op = "/" -> NumDiv(Number(x.a), Number(x.b))
    [] x.op = "*" -> NumMul(Number(x.a), Number(x.b))
    [] x.op = "+" -> NumAdd(Number(x.a), Number(x.b))
    [] x.op = "-" -> NumSub(Number(x.a), Number(x.b))

(***************************************************************************)
(* shared/prorata.ts                                                       *)
(***************************************************************************)
\* fmt3(n) is n.toFixed(3).
fmt3(n) == toFixed3(Number(n))

VAT_RATE == Milli(160)

toUtcMidnight(date) ==
  DateUTC(getUTCFullYear(date), getUTCMonth(date), getUTCDate(date))

daysBetween(a, b) ==
  LET utcA == getTime(toUtcMidnight(a))
      utcB == getTime(toUtcMidnight(b))
      diff == utcB - utcA
  IN MathRound(diff, DAY)

\* Mutants of clampAnchorDay: the anchor day used unclamped (Date.UTC then
\* carries a day past the end of the month into the next month), and the
\* anchor day clamped to 28 whatever the month.
clampAnchorDay_unclamped(year, month, anchor) == Max(1, anchor)

clampAnchorDay_min28(year, month, anchor) == Max(1, Min(anchor, 28))

clampAnchorDay(year, month, anchor) ==
  LET lastDay == getUTCDate(DateUTC(year, month + 1, 0))
  IN Max(1, Min(anchor, lastDay))

anchorDate(base, anchor) ==
  LET year == getUTCFullYear(base)
      month == getUTCMonth(base)
      day == clampAnchorDay(year, month, anchor)
  IN DateUTC(year, month, day)

\* A local that is read more than once is the parameter of a local
\* operator, here and below: Clamped(shifted) is the expression shiftMonth
\* returns, for its const shifted.
shiftMonth(date, months) ==
  LET year == getUTCFullYear(date)
      month == getUTCMonth(date)
      Clamped(shifted) ==
        DateUTC(getUTCFullYear(shifted), getUTCMonth(shifted),
                clampAnchorDay(getUTCFullYear(shifted), getUTCMonth(shifted),
                               getUTCDate(date)))
  IN Clamped(DateUTC(year, month + months, 1))

\* The object { start, end, days } that anchorCycle and cycleFromAnchor
\* return for their locals start and end.
CycleOf(start, end) ==
  [start |-> start, end |-> end, days |-> Max(0, daysBetween(start, end))]

\* Mutants of anchorCycle: the branch for a pivot before this month's anchor
\* left out, and a pivot on the anchor date put in the cycle ending there.

anchorCycle_alwaysForward(date, anchor) ==
  LET Around(pv, currentAnchor) ==
        CycleOf(currentAnchor, anchorDate(shiftMonth(currentAnchor, 1), anchor))
      At(pv) == Around(pv, anchorDate(pv, anchor))
  IN At(toUtcMidnight(date))

anchorCycle_anchorEndsCycle(date, anchor) ==
  LET Around(pv, currentAnchor) ==
        IF getTime(pv) - getTime(currentAnchor) <= 0
        THEN CycleOf(anchorDate(shiftMonth(currentAnchor, -1), anchor),
                     currentAnchor)
        ELSE CycleOf(currentAnchor,
                     anchorDate(shiftMonth(currentAnchor, 1), anchor))
      At(pv) == Around(pv, anchorDate(pv, anchor))
  IN At(toUtcMidnight(date))

anchorCycle(date, anchor) ==
  LET Around(pv, currentAnchor) ==
        LET compare == getTime(pv) - getTime(currentAnchor)
        IN IF compare < 0
           THEN CycleOf(anchorDate(shiftMonth(currentAnchor, -1), anchor),
                        currentAnchor)
           ELSE CycleOf(currentAnchor,
                        anchorDate(shiftMonth(currentAnchor, 1), anchor))
      At(pv) == Around(pv, anchorDate(pv, anchor))
  IN At(toUtcMidnight(date))

\* days === 0 ? 0 : usedDays / days, and monthly * ratio for a monthly
\* amount given in thousandths of a dinar.
Ratio(used, days) ==
  IF days = 0 THEN Whole(0) ELSE Quot(Whole(used), Whole(days))

Times(monthly, ratio) == Prod(Milli(monthly), ratio)

\* The object prorate returns for its locals cycle, usedDays and ratio.
ProrateResultOf(monthly, cycle, usedDays, ratio) ==
  [start |-> cycle.start, end |-> cycle.end, days |-> cycle.days,
   usedDays |-> usedDays, ratio |-> ratio, value |-> Times(monthly, ratio)]

\* Mutants of prorate: the ratio taken over a month of 30 days, the two
\* modes exchanged, and the mode ignored.

prorate_month30(monthly, pv, anchor, mode) ==
  LET Used(cycle, usedDays) ==
        ProrateResultOf(monthly, cycle, usedDays, Ratio(usedDays, 30))
      In(cycle) ==
        Used(cycle, IF mode = "elapsed"
                    THEN Max(0, daysBetween(cycle.start, pv))
                    ELSE Max(0, daysBetween(pv, cycle.end)))
  IN In(anchorCycle(pv, anchor))

prorate_modesExchanged(monthly, pv, anchor, mode) ==
  LET Used(cycle, usedDays) ==
        ProrateResultOf(monthly, cycle, usedDays, Ratio(usedDays, cycle.days))
      In(cycle) ==
        Used(cycle, IF mode = "remaining"
                    THEN Max(0, Min(cycle.days, daysBetween(cycle.start, pv)))
                    ELSE Max(0, Min(cycle.days, daysBetween(pv, cycle.end))))
  IN In(anchorCycle(pv, anchor))

prorate_remainingOnly(monthly, pv, anchor, mode) ==
  LET Used(cycle, usedDays) ==
        ProrateResultOf(monthly, cycle, usedDays, Ratio(usedDays, cycle.days))
      In(cycle) ==
        Used(cycle, Max(0, Min(cycle.days, daysBetween(pv, cycle.end))))
  IN In(anchorCycle(pv, anchor))

prorate(monthly, pv, anchor, mode) ==
  LET Used(cycle, usedDays) ==
        ProrateResultOf(monthly, cycle, usedDays, Ratio(usedDays, cycle.days))
      In(cycle) ==
        LET start == cycle.start
            end == cycle.end
            days == cycle.days
        IN Used(cycle, IF mode = "elapsed"
                       THEN Max(0, Min(days, daysBetween(start, pv)))
                       ELSE Max(0, Min(days, daysBetween(pv, end))))
  IN In(anchorCycle(pv, anchor))

firstAnchorAfterActivation(act, anchor) ==
  LET Around(activation, sameMonthAnchor) ==
        IF getTime(activation) >= getTime(sameMonthAnchor)
        THEN anchorDate(shiftMonth(sameMonthAnchor, 1), anchor)
        ELSE sameMonthAnchor
      At(activation) == Around(activation, anchorDate(activation, anchor))
  IN At(toUtcMidnight(act))

\* Mutant of cycleFromAnchor: the start is the end shifted by a month, not
\* clamped again to the anchor day.
cycleFromAnchor_shiftedEnd(end, anchor) ==
  LET From(normalizedEnd) ==
        LET prevAnchor == shiftMonth(normalizedEnd, -1)
        IN CycleOf(prevAnchor, normalizedEnd)
  IN From(toUtcMidnight(end))

cycleFromAnchor(end, anchor) ==
  LET From(normalizedEnd) ==
        LET prevAnchor == shiftMonth(normalizedEnd, -1)
            start == anchorDate(prevAnchor, anchor)
        IN CycleOf(start, normalizedEnd)
  IN From(toUtcMidnight(end))

\* The text YYYY-MM-DD of a date, as its three numbers.
formatDateIso(date) ==
  LET Iso(t) == <<getUTCFullYear(t), getUTCMonth(t) + 1, getUTCDate(t)>>
  IN Iso(toUtcMidnight(date))

\* Mutant of computeActivationProrata: the day of the first anchor counted
\* among the prorated days.
computeActivationProrata_inclusive(monthly, activation, anchor) ==
  LET Summary(firstAnchor, cycle, proDays, ratio) ==
        [period |-> <<formatDateIso(activation), formatDateIso(firstAnchor)>>,
         proDays |-> proDays,
         days |-> cycle.days,
         pct |-> Prod(ratio, Whole(100)),
         proAmount |-> Times(monthly, ratio),
         monthly |-> Milli(monthly),
         anchor |-> anchor,
         activation |-> formatDateIso(activation)]
      Pro(firstAnchor, cycle, proDays) ==
        Summary(firstAnchor, cycle, proDays, Ratio(proDays, cycle.days))
      First(firstAnchor) ==
        Pro(firstAnchor, cycleFromAnchor(firstAnchor, anchor),
            Max(0, daysBetween(activation, firstAnchor) + 1))
  IN First(firstAnchorAfterActivation(activation, anchor))

\* pct, proAmount and monthly are kept as the numbers the code renders
\* (ratio * 100 with two decimals, the amounts with fmt3 after "JD ").
computeActivationProrata(monthly, activation, anchor) ==
  LET Summary(firstAnchor, cycle, proDays, ratio) ==
        [period |-> <<formatDateIso(activation), formatDateIso(firstAnchor)>>,
         proDays |-> proDays,
         days |-> cycle.days,
         pct |-> Prod(ratio, Whole(100)),
         proAmount |-> Times(monthly, ratio),
         monthly |-> Milli(monthly),
         anchor |-> anchor,
         activation |-> formatDateIso(activation)]
      Pro(firstAnchor, cycle, proDays) ==
        Summary(firstAnchor, cycle, proDays, Ratio(proDays, cycle.days))
      First(firstAnchor) ==
        Pro(firstAnchor, cycleFromAnchor(firstAnchor, anchor),
            Max(0, daysBetween(activation, firstAnchor)))
  IN First(firstAnchorAfterActivation(activation, anchor))

\* The dictionary STR, the Arabic texts by their English names.
STR ==
  [script |->
     [en |-> [period |-> "Period", proratedDays |-> "Prorated days",
              prorataAmount |-> "Pro-rata amount", monthly |-> "Monthly"],
      ar |-> [period |-> "ar:Period", proratedDays |-> "ar:Prorated days",
              prorataAmount |-> "ar:Pro-rata amount",
              monthly |-> "ar:Monthly subscription"]],
   totals |->
     [en |-> [monthly |-> "Monthly", prorata |-> "Pro-rata"],
      ar |-> [monthly |-> "ar:Monthly", prorata |-> "ar:Pro-rata"]],
   vat |->
     [en |-> [net |-> "Net", vat |-> "VAT (16%)", gross |-> "Gross"],
      ar |-> [net |-> "ar:Net", vat |-> "ar:VAT 16%", gross |-> "ar:Gross"]],
   currency |-> [en |-> "JD", ar |-> "ar:Dinar"]]

\* Mutant of formatProrataOutput: the VAT taken from the monthly amount alone.
formatProrataOutput_vatOfMonthly(lang, mode, monthly, result) ==
  LET start == formatDateIso(result.start)
      end == formatDateIso(result.end)
      ratioPct == Prod(result.ratio, Whole(100))
      usedDays == result.usedDays
      days == result.days
      value == result.value
      net == Sum(Milli(monthly), value)
      vat == Prod(Milli(monthly), VAT_RATE)
      gross == Sum(net, vat)
  IN CASE mode = "script" ->
            [labels |-> STR.script[lang], currency |-> "JD",
             start |-> start, end |-> end, usedDays |-> usedDays,
             days |-> days, ratioPct |-> ratioPct, value |-> value,
             monthly |-> Milli(monthly)]
       [] mode = "totals" ->
            [labels |-> STR.totals[lang], currency |-> STR.currency[lang],
             monthly |-> Milli(monthly), prorata |-> value]
       [] mode = "vat" ->
            [labels |-> STR.vat[lang], currency |-> STR.currency[lang],
             net |-> net, vat |-> vat, gross |-> gross]

\* The numbers formatProrataOutput renders (each with fmt3, ratioPct with
\* two decimals), for a monthly amount in thousandths of a dinar, with the
\* labels and the currency word of the language they are rendered between
\* (the script view writes JD in both languages).
formatProrataOutput(lang, mode, monthly, result) ==
  LET start == formatDateIso(result.start)
      end == formatDateIso(result.end)
      ratioPct == Prod(result.ratio, Whole(100))
      usedDays == result.usedDays
      days == result.days
      value == result.value
      net == Sum(Milli(monthly), value)
      vat == Prod(net, VAT_RATE)
      gross == Sum(net, vat)
  IN CASE mode = "script" ->
            [labels |-> STR.script[lang], currency |-> "JD",
             start |-> start, end |-> end, usedDays |-> usedDays,
             days |-> days, ratioPct |-> ratioPct, value |-> value,
             monthly |-> Milli(monthly)]
       [] mode = "totals" ->
            [labels |-> STR.totals[lang], currency |-> STR.currency[lang],
             monthly |-> Milli(monthly), prorata |-> value]
       [] mode = "vat" ->
            [labels |-> STR.vat[lang], currency |-> STR.currency[lang],
             net |-> net, vat |-> vat, gross |-> gross]

(***************************************************************************)
(* client/src/lib/proRata.ts                                               *)
(*                                                                         *)
(* An activationDate is a Date, [date |-> time value], or a string         *)
(* YYYY-MM-DD, [text |-> <<year, month, day>>].  An optional property that *)
(* is not given is not in the domain of the input.                         *)
(***************************************************************************)
toUTC(d) ==
  IF "text" \in DOMAIN d
  THEN DateUTC(d.text[1], d.text[2] - 1, d.text[3])
  ELSE d.date

ymd(d) == <<getUTCFullYear(d), getUTCMonth(d) + 1, getUTCDate(d)>>

firstAnchorAfter(dUTC, anchor) ==
  LET same == DateUTC(getUTCFullYear(dUTC), getUTCMonth(dUTC), anchor)
  IN IF getTime(dUTC) >= getTime(same)
     THEN DateUTC(getUTCFullYear(dUTC), getUTCMonth(dUTC) + 1, anchor)
     ELSE same

\* jd3(n) is `JD ${Number(n).toFixed(3)}`.
jd3(n) == <<"J", "D", " ">> \o toFixed3(Number(n))

\* Mutant of computeProrata: the net amount taken as the gross amount less
\* vatRate of the gross amount.
computeProrata_vatOfGross(input) ==
  LET vatRate == IF "vatRate" \in DOMAIN input THEN input.vatRate ELSE Milli(160)
      anchor == IF "anchorDay" \in DOMAIN input THEN input.anchorDay ELSE 15
      cycleDays == 15
      Output(act, end, proDays, ratio, monthlyNet) ==
        [cycleDays |-> cycleDays, proDays |-> proDays, ratio |-> ratio,
         prorataNet |-> Prod(monthlyNet, ratio), monthlyNet |-> monthlyNet,
         vatRate |-> vatRate,
         cycleStartUTC |-> getTime(end) - cycleDays * DAY,
         cycleEndUTC |-> end,
         nextCycleEndUTC |-> getTime(end) + cycleDays * DAY,
         pctText |-> Prod(ratio, Whole(100)),
         cycleRangeText |-> <<ymd(getTime(end) - cycleDays * DAY), ymd(end)>>,
         proDaysText |-> <<proDays, cycleDays>>]
        @@ (IF input.mode = "gross"
            THEN [fullInvoiceGross |-> input.fullInvoiceGross]
            ELSE <<>>)
      Pro(act, end, proDays) ==
        Output(act, end, proDays,
               IF cycleDays # 0
               THEN Quot(Whole(proDays), Whole(cycleDays)) ELSE Whole(0),
               IF input.mode = "gross"
               THEN Diff(input.fullInvoiceGross,
                         Prod(input.fullInvoiceGross, vatRate))
               ELSE input.monthlyNet)
      Cycle(act, end) ==
        Pro(act, end,
            Min(Max(0, MathRound(getTime(end) - getTime(act), DAY)), cycleDays))
      From(act) == Cycle(act, firstAnchorAfter(act, anchor))
  IN From(toUTC(input.activationDate))

\* The texts prorataNetText and monthlyNetText are jd3 of prorataNet and
\* of monthlyNet; pctText is kept as the number it renders with two
\* decimals, cycleRangeText and proDaysText as the values they join.
computeProrata(input) ==
  LET vatRate == IF "vatRate" \in DOMAIN input THEN input.vatRate ELSE Milli(160)
      anchor == IF "anchorDay" \in DOMAIN input THEN input.anchorDay ELSE 15
      cycleDays == 15
      Output(act, end, proDays, ratio, monthlyNet) ==
        [cycleDays |-> cycleDays, proDays |-> proDays, ratio |-> ratio,
         prorataNet |-> Prod(monthlyNet, ratio), monthlyNet |-> monthlyNet,
         vatRate |-> vatRate,
         cycleStartUTC |-> getTime(end) - cycleDays * DAY,
         cycleEndUTC |-> end,
         nextCycleEndUTC |-> getTime(end) + cycleDays * DAY,
         pctText |-> Prod(ratio, Whole(100)),
         cycleRangeText |-> <<ymd(getTime(end) - cycleDays * DAY), ymd(end)>>,
         proDaysText |-> <<proDays, cycleDays>>]
        @@ (IF input.mode = "gross"
            THEN [fullInvoiceGross |-> input.fullInvoiceGross]
            ELSE <<>>)
      Pro(act, end, proDays) ==
        Output(act, end, proDays,
               IF cycleDays # 0
               THEN Quot(Whole(proDays), Whole(cycleDays)) ELSE Whole(0),
               IF input.mode = "gross"
               THEN Quot(input.fullInvoiceGross, Sum(Whole(1), vatRate))
               ELSE input.monthlyNet)
      Cycle(act, end) ==
        Pro(act, end,
            Min(Max(0, MathRound(getTime(end) - getTime(act), DAY)), cycleDays))
      From(act) == Cycle(act, firstAnchorAfter(act, anchor))
  IN From(toUTC(input.activationDate))

(***************************************************************************)
(* client/src/lib/calc.ts                                                  *)
(*                                                                         *)
(* A base price is a number of the state: a literal with three decimals    *)
(* (Milli(k), negative for k < 0), NaN, Infinity or NegativeInfinity.      *)
(***************************************************************************)
isFinite(x) == x.op \notin {"NaN", "Infinity", "-Infinity"}

\* x < 0 for a base price.
BelowZero(x) == (x.op = "milli" /\ x.k < 0) \/ x.op = "-Infinity"

calculateOrangePricing_halfOfVoice(input) ==
  LET Results(base) ==
        [base |-> Fixed2(base),
         nosB_Nos |-> Fixed2(Sum(Sum(base,
                                     Prod(Quot(base, Whole(2)),
                                          TenThousandth(4616))),
                                 Prod(Quot(base, Whole(2)),
                                      TenThousandth(1600)))),
         voiceCallsOnly |-> Fixed2(Prod(base, TenThousandth(4616))),
         dataOnly |-> Fixed2(Prod(base, TenThousandth(11600)))]
  IN IF BelowZero(input.basePrice) \/ ~isFinite(input.basePrice)
     THEN [throws |-> "Base price must be a non-negative finite number"]
     ELSE [returns |-> Results(input.basePrice)]

calculateOrangePricing(input) ==
  LET Results(base) ==
        [base |-> Fixed2(base),
         nosB_Nos |-> Fixed2(Sum(Sum(base,
                                     Prod(Quot(base, Whole(2)),
                                          TenThousandth(4616))),
                                 Prod(Quot(base, Whole(2)),
                                      TenThousandth(1600)))),
         voiceCallsOnly |-> Fixed2(Prod(base, TenThousandth(14616))),
         dataOnly |-> Fixed2(Prod(base, TenThousandth(11600)))]
  IN IF BelowZero(input.basePrice) \/ ~isFinite(input.basePrice)
     THEN [throws |-> "Base price must be a non-negative finite number"]
     ELSE [returns |-> Results(input.basePrice)]

(***************************************************************************)
(* The state machine: a caller holds a pivot date and an anchor day and    *)
(* calls the exported helpers one at a time; call records the call being   *)
(* made and its result until the caller has taken it (Return).  The        *)
(* helpers keep no state, so a call never depends on the calls before it.  *)
(***************************************************************************)
Pivots ==
  { DateUTC(y, 0, 1) + d * DAY + h :
      y \in Years, d \in 0 .. 365, h \in PivotHours }

Init ==
  /\ pivot \in { p \in Pivots : getUTCFullYear(p) \in Years }
  /\ anchorDay \in AnchorDays
  /\ call = [op |-> "none"]
  /\ ServerStarted
  /\ PageNotOpened
  /\ StoreNotUsed
  /\ DocsNotUsed

CallAnchorCycle ==
  /\ call.op = "none"
  /\ call' = [op |-> "anchorCycle", result |-> anchorCycle(pivot, anchorDay)]
  /\ UNCHANGED <<pivot, anchorDay, beyondProrata>>

CallProrate ==
  /\ call.op = "none"
  /\ \E monthly \in Amounts, mode \in Modes :
       call' = [op |-> "prorate", monthly |-> monthly, mode |-> mode,
                result |-> prorate(monthly, pivot, anchorDay, mode)]
  /\ UNCHANGED <<pivot, anchorDay, beyondProrata>>

CallFirstAnchorAfterActivation ==
  /\ call.op = "none"
  /\ call' = [op |-> "firstAnchorAfterActivation",
              result |-> firstAnchorAfterActivation(pivot, anchorDay)]
  /\ UNCHANGED <<pivot, anchorDay, beyondProrata>>

CallComputeActivationProrata ==
  /\ call.op = "none"
  /\ \E monthly \in Amounts :
       call' = [op |-> "computeActivationProrata", monthly |-> monthly,
                result |-> computeActivationProrata(monthly, pivot, anchorDay)]
  /\ UNCHANGED <<pivot, anchorDay, beyondProrata>>

Return ==
  /\ call.op # "none"
  /\ call' = [op |-> "none"]
  /\ UNCHANGED <<pivot, anchorDay, beyondProrata>>

Next ==
  \/ CallAnchorCycle
  \/ CallProrate
  \/ CallFirstAnchorAfterActivation
  \/ CallComputeActivationProrata
  \/ Return

Spec == Init /\ [][Next]_vars

(***************************************************************************)
(* The VAT views: a caller renders a prorate result (the request handler   *)
(* of shared/prorata.ts) or computes the pro-rata of an activation with    *)
(* computeProrata, from amounts typed in or from the gross amount of the   *)
(* VAT view it has just rendered; call then keeps the amounts of that view  *)
(* as call.of.                                                             *)
(***************************************************************************)
VatPivots ==
  { DateUTC(2025, 9, d) + h : d \in VatPivotDates, h \in PivotHours }

\* The optional properties vatRate and anchorDay of a ProrataInput.
VatOptions ==
  { <<>>, [vatRate |-> Milli(160)], [vatRate |-> Milli(50)],
    [anchorDay |-> anchorDay], [vatRate |-> Milli(160), anchorDay |-> anchorDay] }

ActivationDates ==
  { [date |-> pivot], [text |-> formatDateIso(pivot)] }

InitVat ==
  /\ pivot \in VatPivots
  /\ anchorDay \in VatAnchorDays
  /\ call = [op |-> "none"]
  /\ ServerStarted
  /\ PageNotOpened
  /\ StoreNotUsed
  /\ DocsNotUsed

CallFormatProrataOutput ==
  /\ call.op = "none"
  /\ \E monthly \in VatAmounts, mode \in Modes, formMode \in FormatModes,
        lang \in Langs :
       call' = [op |-> "formatProrataOutput", monthly |-> monthly,
                mode |-> mode, formMode |-> formMode, lang |-> lang,
                result |-> formatProrataOutput(lang, formMode, monthly,
                             prorate(monthly, pivot, anchorDay, mode))]
  /\ UNCHANGED <<pivot, anchorDay, beyondProrata>>

CallComputeProrata ==
  /\ call.op = "none"
  /\ \E amount \in VatAmounts, activationDate \in ActivationDates,
        options \in VatOptions, gross \in BOOLEAN :
       LET input == (IF gross
                     THEN [mode |-> "gross", activationDate |-> activationDate,
                           fullInvoiceGross |-> Milli(amount)]
                     ELSE [mode |-> "monthly", activationDate |-> activationDate,
                           monthlyNet |-> Milli(amount)]) @@ options
       IN call' = [op |-> "computeProrata", input |-> input,
                   result |-> computeProrata(input)]
  /\ UNCHANGED <<pivot, anchorDay, beyondProrata>>

CallComputeProrataOfGross ==
  /\ call.op = "formatProrataOutput"
  /\ call.formMode = "vat"
  /\ \E activationDate \in ActivationDates, options \in VatOptions :
       LET input == [mode |-> "gross", activationDate |-> activationDate,
                     fullInvoiceGross |-> call.result.gross] @@ options
       IN call' = [op |-> "computeProrata", input |-> input,
                   of |-> [net |-> call.result.net, vat |-> call.result.vat,
                           gross |-> call.result.gross],
                   result |-> computeProrata(input)]
  /\ UNCHANGED <<pivot, anchorDay, beyondProrata>>

NextVat ==
  \/ CallFormatProrataOutput
  \/ CallComputeProrata
  \/ CallComputeProrataOfGross
  \/ Return

SpecVat == InitVat /\ [][NextVat]_vars

(***************************************************************************)
(* The entry points called with any amount and any anchor day: neither     *)
(* prorate nor computeProrata has a throw statement or a check of its      *)
(* arguments, so every call returns a result.                              *)
(***************************************************************************)
InitInputs ==
  /\ pivot \in VatPivots
  /\ anchorDay \in AnyAnchorDays
  /\ call = [op |-> "none"]
  /\ ServerStarted
  /\ PageNotOpened
  /\ StoreNotUsed
  /\ DocsNotUsed

CallProrateAnyInput ==
  /\ call.op = "none"
  /\ \E monthly \in AnyAmounts, mode \in Modes :
       call' = [op |-> "prorate", monthly |-> monthly, mode |-> mode,
                result |-> prorate(monthly, pivot, anchorDay, mode)]
  /\ UNCHANGED <<pivot, anchorDay, beyondProrata>>

CallComputeProrataAnyInput ==
  /\ call.op = "none"
  /\ \E amount \in AnyAmounts, activationDate \in ActivationDates,
        gross \in BOOLEAN :
       LET input == IF gross
                    THEN [mode |-> "gross", activationDate |-> activationDate,
                          fullInvoiceGross |-> Milli(amount),
                          anchorDay |-> anchorDay]
                    ELSE [mode |-> "monthly", activationDate |-> activationDate,
                          monthlyNet |-> Milli(amount), anchorDay |-> anchorDay]
       IN call' = [op |-> "computeProrata", input |-> input,
                   result |-> computeProrata(input)]
  /\ UNCHANGED <<pivot, anchorDay, beyondProrata>>

NextInputs ==
  \/ CallProrateAnyInput
  \/ CallComputeProrataAnyInput
  \/ Return

SpecInputs == InitInputs /\ [][NextInputs]_vars

(***************************************************************************)
(* The price calculator: a caller passes a base price to                   *)
(* calculateOrangePricing and takes the results or the error thrown.       *)
(***************************************************************************)
BasePrices ==
  {Milli(k * PriceStep) : k \in (0 - 2) .. MaxPrice}
    \cup {NaN, Infinity, NegativeInfinity}

InitCalculator ==
  /\ NoCaller
  /\ ServerStarted
  /\ PageNotOpened
  /\ StoreNotUsed
  /\ DocsNotUsed

CallCalculateOrangePricing ==
  /\ \E basePrice \in BasePrices :
       call' = [op |-> "calculateOrangePricing",
                input |-> [basePrice |-> basePrice],
                outcome |-> calculateOrangePricing([basePrice |-> basePrice])]
  /\ UNCHANGED <<pivot, anchorDay, beyondProrata>>

NextCalculator ==
  \/ CallCalculateOrangePricing
  \/ Return

SpecCalculator == InitCalculator /\ [][NextCalculator]_vars

(***************************************************************************)
(* client/src/pages/Home.tsx: hash-based navigation.  The page is opened   *)
(* with any fragment; Home mounts and reads it, and from then on handles   *)
(* the hashchange events, which the browser fires when the fragment        *)
(* changes and dispatches later, one at a time.                            *)
(***************************************************************************)
TabNames == {"calculator", "pro-rata", "assistant"}

\* setActiveTab and setChatOpen as the effect of Home and its
\* handleHashChange call them for the fragment newHash: the activeTab and
\* isChatOpen of the store afterwards.
handleHashChange_anyHash(newHash, tab, open) ==
  IF newHash # ""
  THEN [activeTab |-> newHash,
        isChatOpen |-> IF newHash = "assistant" THEN TRUE ELSE open]
  ELSE [activeTab |-> tab, isChatOpen |-> open]

handleHashChange(newHash, tab, open) ==
  IF newHash # "" /\ newHash \in TabNames
  THEN [activeTab |-> newHash,
        isChatOpen |-> IF newHash = "assistant" THEN TRUE ELSE open]
  ELSE [activeTab |-> tab, isChatOpen |-> open]

\* Assigning window.location.hash: the events waiting afterwards (an event
\* is fired when the fragment changes).
Fired(value) == IF value # hash THEN hashchange + 1 ELSE hashchange

InitHome ==
  /\ NoCaller
  /\ ServerStarted
  /\ StoreNotUsed
  /\ DocsNotUsed
  /\ hash \in Hashes
  /\ activeTab = "calculator"
  /\ isChatOpen = FALSE
  /\ mounted = FALSE
  /\ hashchange = 0
  /\ last = [event |-> "none"]

\* The effect of Home on mount.
MountHome ==
  /\ ~mounted
  /\ mounted' = TRUE
  /\ LET After(store) ==
           /\ activeTab' = store.activeTab
           /\ isChatOpen' = store.isChatOpen
     IN After(handleHashChange(hash, activeTab, isChatOpen))
  /\ last' = [event |-> "mount", hash |-> hash]
  /\ UNCHANGED <<hash, hashchange, beyondHome>>

\* The user edits the fragment of the URL or follows a link to one.
Navigate ==
  /\ hashchange < MaxEvents
  /\ \E newHash \in Hashes \ {hash} :
       /\ hash' = newHash
       /\ last' = [event |-> "navigate", hash |-> newHash]
  /\ hashchange' = hashchange + 1
  /\ UNCHANGED <<activeTab, isChatOpen, mounted, beyondHome>>

\* The browser dispatches a hashchange event: handleHashChange runs if Home
\* has registered it.
DispatchHashChange ==
  /\ hashchange > 0
  /\ hashchange' = hashchange - 1
  /\ IF mounted
     THEN LET After(store) ==
                /\ activeTab' = store.activeTab
                /\ isChatOpen' = store.isChatOpen
          IN /\ After(handleHashChange(hash, activeTab, isChatOpen))
             /\ last' = [event |-> "hashchange", hash |-> hash]
     ELSE /\ UNCHANGED <<activeTab, isChatOpen>>
          /\ last' = [event |-> "unheard"]
  /\ UNCHANGED <<hash, mounted, beyondHome>>

\* handleTabChange(value), value one of the TabsTrigger values.
TabChange ==
  /\ mounted
  /\ hashchange < MaxEvents
  /\ \E value \in TabNames :
       /\ activeTab' = value
       /\ hash' = value
       /\ hashchange' = Fired(value)
       /\ isChatOpen' = (IF value = "assistant" THEN TRUE ELSE isChatOpen)
       /\ last' = [event |-> "handleTabChange", value |-> value]
  /\ UNCHANGED <<mounted, beyondHome>>

\* The Help button of the header.
ClickHelp ==
  /\ mounted
  /\ hashchange < MaxEvents
  /\ isChatOpen' = TRUE
  /\ activeTab' = "assistant"
  /\ hash' = "assistant"
  /\ hashchange' = Fired("assistant")
  /\ last' = [event |-> "help"]
  /\ UNCHANGED <<mounted, beyondHome>>

\* The buttons that open the chat (Home, Chatbot) and closeChat of Chatbot.
SetChatOpen ==
  /\ mounted
  /\ \E open \in BOOLEAN :
       /\ open # isChatOpen
       /\ isChatOpen' = open
       /\ last' = [event |-> "setChatOpen", open |-> open]
  /\ UNCHANGED <<hash, activeTab, mounted, hashchange, beyondHome>>

NextHome ==
  \/ MountHome
  \/ Navigate
  \/ DispatchHashChange
  \/ TabChange
  \/ ClickHelp
  \/ SetChatOpen

SpecHome == InitHome /\ [][NextHome]_vars

(***************************************************************************)
(* client/src/lib/store.ts and its other version (part_010): the actions   *)
(* of the app store that save to localStorage.                             *)
(***************************************************************************)
\* What a reload would find in memory: the persisted fields of the store.
Memory == [theme |-> theme, locale |-> locale, chatMessages |-> chatMessages]

\* persist() of client/src/lib/store.ts for the store as it is after set():
\* the item saved.
persist(memory) ==
  [theme |-> memory.theme,
   locale |-> memory.locale,
   chatMessages |-> memory.chatMessages]

\* An action of the store that sets the fields of change and saves: set()
\* and then persist() in client/src/lib/store.ts, { ...stored, change } in
\* the other version.
SetAndSave(change) ==
  LET After(memory) ==
        /\ theme' = memory.theme
        /\ locale' = memory.locale
        /\ chatMessages' = memory.chatMessages
        /\ localStorage' = (IF version = "client/src/lib/store.ts"
                            THEN persist(memory)
                            ELSE change @@ stored)
  IN /\ After(change @@ Memory)
     /\ UNCHANGED <<version, stored>>

\* The store after its creation, for an item of an earlier session or none.
StoreCreated(item, arabic) ==
  LET From(loaded) ==
        /\ stored = loaded
        /\ theme = loaded.theme
        /\ locale = loaded.locale
        /\ chatMessages = loaded.chatMessages
  IN /\ localStorage = item
     /\ From(loadFromStorage(item, DefaultStored(arabic)))

EarlierItems ==
  {NoItem, [theme |-> "dark", locale |-> "ar", chatMessages |-> <<>>]}

InitStore ==
  /\ NoCaller
  /\ ServerStarted
  /\ PageNotOpened
  /\ DocsNotUsed
  /\ version \in Versions
  /\ \E item \in EarlierItems, arabic \in BOOLEAN : StoreCreated(item, arabic)
  /\ isLoading = FALSE
  /\ exchange = NoExchange
  /\ stream = NoStream

setTheme ==
  /\ \E newTheme \in Themes : SetAndSave([theme |-> newTheme])
  /\ UNCHANGED beyondStore

setLocale ==
  /\ \E newLocale \in Langs : SetAndSave([locale |-> newLocale])
  /\ UNCHANGED beyondStore

Message(id, role, content) == [id |-> id, role |-> role, content |-> content]

addChatMessage ==
  /\ Len(chatMessages) < MaxMessages
  /\ \E content \in UserTexts :
       SetAndSave([chatMessages |->
                     Append(chatMessages,
                            Message(Len(chatMessages) + 1, "user", content))])
  /\ UNCHANGED beyondStore

clearChatMessages ==
  /\ SetAndSave([chatMessages |-> <<>>])
  /\ UNCHANGED beyondStore

NextStore ==
  \/ setTheme
  \/ setLocale
  \/ addChatMessage
  \/ clearChatMessages

SpecStore == InitStore /\ [][NextStore]_vars

(***************************************************************************)
(* client/src/components/Chatbot.tsx: handleSend, with the app store of    *)
(* client/src/lib/store.ts.  An exchange goes from the call of handleSend  *)
(* to its finally block; the steps in between are the continuations of     *)
(* its awaits (fetch, response.json, reader.read).                         *)
(***************************************************************************)
ErrorText(lang) ==
  IF lang = "ar" THEN <<"ar:sorry">>
  ELSE <<"Sorry, I encountered an error. Please try again.">>

\* state.chatMessages.map(msg => msg.id === id ? { ...msg, content } : msg)
WithContent(messages, id, content) ==
  [i \in 1 .. Len(messages) |->
     IF messages[i].id = id THEN [messages[i] EXCEPT !.content = content]
     ELSE messages[i]]

InitChat ==
  /\ NoCaller
  /\ ServerStarted
  /\ PageNotOpened
  /\ DocsNotUsed
  /\ version = "client/src/lib/store.ts"
  /\ \E arabic \in BOOLEAN : StoreCreated(NoItem, arabic)
  /\ isLoading = FALSE
  /\ exchange = NoExchange
  /\ stream = NoStream

\* handleSend up to its await fetch: the user message and the empty
\* assistant message are added with addChatMessage (set and persist).
handleSend ==
  /\ ~isLoading
  /\ Len(chatMessages) < 2 * MaxExchanges
  /\ \E messageText \in UserTexts :
       LET userId == Len(chatMessages) + 1
           assistantMessageId == Len(chatMessages) + 2
           Added(messages) ==
             /\ chatMessages' = messages
             /\ localStorage' = persist([Memory EXCEPT
                                          !.chatMessages = messages])
       IN /\ Added(chatMessages
                     \o <<Message(userId, "user", messageText),
                          Message(assistantMessageId, "assistant", <<>>)>>)
          /\ exchange' = [phase |-> "fetch",
                          assistantMessageId |-> assistantMessageId,
                          accumulated |-> <<>>]
  /\ isLoading' = TRUE
  /\ UNCHANGED <<version, theme, locale, stored, beyondChat>>

\* useAppStore.setState of handleSend: the content of the assistant message
\* is replaced, nothing is saved.
SetContent(content) ==
  /\ chatMessages' = WithContent(chatMessages, exchange.assistantMessageId,
                                  content)
  /\ UNCHANGED <<version, theme, locale, localStorage, stored>>

\* finally { setIsLoading(false) }
Finished ==
  /\ isLoading' = FALSE
  /\ exchange' = [exchange EXCEPT !.phase = "finished"]

\* fetch or reader.read rejects (network error, abort), or the response is
\* not ok or has no body: the catch block.
ExchangeFails ==
  /\ exchange.phase \in {"fetch", "stream"}
  /\ SetContent(ErrorText(locale))
  /\ Finished
  /\ UNCHANGED beyondChat

\* The response is JSON: with data.message its content replaces the
\* assistant message, without it nothing changes.
JsonReply ==
  /\ exchange.phase = "fetch"
  /\ \/ \E piece \in ChunkTexts : SetContent(<<piece>>)
     \/ UNCHANGED storeVars
  /\ Finished
  /\ UNCHANGED beyondChat

\* The response is a stream: its body is read from now on.
StreamStarts ==
  /\ exchange.phase = "fetch"
  /\ exchange' = [exchange EXCEPT !.phase = "stream"]
  /\ UNCHANGED <<storeVars, isLoading, beyondChat>>

\* reader.read returns a data line with content.
StreamChunk ==
  /\ exchange.phase = "stream"
  /\ Len(exchange.accumulated) < MaxChunks
  /\ \E piece \in ChunkTexts :
       LET Accumulated(text) ==
             /\ exchange' = [exchange EXCEPT !.accumulated = text]
             /\ SetContent(text)
       IN Accumulated(Append(exchange.accumulated, piece))
  /\ UNCHANGED <<isLoading, beyondChat>>

\* reader.read returns done or the line [DONE].
StreamDone ==
  /\ exchange.phase = "stream"
  /\ IF exchange.accumulated # <<>>
     THEN SetContent(exchange.accumulated)
     ELSE UNCHANGED storeVars
  /\ Finished
  /\ UNCHANGED beyondChat

NextChat ==
  \/ handleSend
  \/ ExchangeFails
  \/ JsonReply
  \/ StreamStarts
  \/ StreamChunk
  \/ StreamDone

SpecChat == InitChat /\ [][NextChat]_vars

(***************************************************************************)
(* server/docs.ts.  A string is the sequence of its characters; the line   *)
(* feed is "LF" and the bullet (U+2022) is "bullet".  The titles of the    *)
(* model are ASCII, so ARABIC_TO_ASCII and the removal of Arabic           *)
(* diacritics never apply, and every tag is "en".                          *)
(***************************************************************************)
UpperCase ==
  <<"A", "B", "C", "D", "E", "F", "G", "H", "I", "J", "K", "L", "M",
    "N", "O", "P", "Q", "R", "S", "T", "U", "V", "W", "X", "Y", "Z">>

LowerCase ==
  <<"a", "b", "c", "d", "e", "f", "g", "h", "i", "j", "k", "l", "m",
    "n", "o", "p", "q", "r", "s", "t", "u", "v", "w", "x", "y", "z">>

Range(f) == {f[i] : i \in DOMAIN f}

toLowerCase(text) ==
  [i \in 1 .. Len(text) |->
     IF text[i] \in Range(UpperCase)
     THEN LowerCase[CHOOSE k \in 1 .. 26 : UpperCase[k] = text[i]]
     ELSE text[i]]

\* \s, and the ASCII characters of the class of punctuation that
\* slugifyTitle replaces (the grave accent is "grave").
Spaces == {" ", "LF"}

Punctuation == {"_", "~", "grave", "^", "!", "?", ",", ".", ";", ":", "-"}

\* /^[a-z0-9]$/i for a lower case character, and /[\p{L}0-9]/.
IsLowerAlnum(c) == c \in Range(LowerCase) \cup Range(DigitChars)

IsLetterOrDigit(c) == IsLowerAlnum(c) \/ c \in Range(UpperCase)

\* text.replace(/[class]+/g, by): every run of characters of class becomes
\* one by.
RECURSIVE ReplaceRunsFrom(_, _, _, _, _)
ReplaceRunsFrom(text, i, class, by, inRun) ==
  IF i > Len(text) THEN <<>>
  ELSE IF text[i] \in class
  THEN (IF inRun THEN <<>> ELSE <<by>>)
         \o ReplaceRunsFrom(text, i + 1, class, by, TRUE)
  ELSE <<text[i]>> \o ReplaceRunsFrom(text, i + 1, class, by, FALSE)

ReplaceRuns(text, class, by) == ReplaceRunsFrom(text, 1, class, by, FALSE)

\* One c removed from each end of a text (trim() after the runs of white
\* space are single spaces; replace(/^-|-$/g, "")).
StripEnds(text, c) ==
  LET AtStart(t) == IF t # <<>> /\ t[1] = c THEN SubSeq(t, 2, Len(t)) ELSE t
      AtEnd(t) ==
        IF t # <<>> /\ t[Len(t)] = c THEN SubSeq(t, 1, Len(t) - 1) ELSE t
  IN AtEnd(AtStart(text))

normalizeWhitespace(input) == StripEnds(ReplaceRuns(input, Spaces, " "), " ")

\* slugFallback: doc- and the first characters of the base64url of the
\* title, kept as the title.
slugFallback(title) == <<"d", "o", "c", "-">> \o title

RECURSIVE SlugParts(_, _)
SlugParts(title, i) ==
  IF i > Len(title) THEN <<>>
  ELSE (IF IsLowerAlnum(title[i]) THEN <<title[i]>>
        ELSE IF title[i] \in Spaces THEN <<"-">>
        ELSE <<>>)
         \o SlugParts(title, i + 1)

slugifyTitle(rawTitle) ==
  LET Joined(title) == StripEnds(ReplaceRuns(SlugParts(title, 1), {"-"}, "-"), "-")
      Slug(title) ==
        IF title = <<>> THEN slugFallback(rawTitle)
        ELSE IF Joined(title) # <<>> THEN Joined(title)
        ELSE slugFallback(rawTitle)
  IN Slug(toLowerCase(ReplaceRuns(normalizeWhitespace(rawTitle),
                                  Punctuation, " ")))

\* text.split(/\n+|\u2022+/): the pieces between the separators (the empty
\* pieces between two separators of different kinds included).
RECURSIVE SplitFrom(_, _, _)
SplitFrom(text, i, piece) ==
  IF i > Len(text) THEN <<piece>>
  ELSE IF text[i] \in {"LF", "bullet"}
  THEN (IF piece = <<>> /\ i > 1 /\ text[i - 1] = text[i] THEN <<>>
        ELSE <<piece>>)
         \o SplitFrom(text, i + 1, <<>>)
  ELSE SplitFrom(text, i + 1, Append(piece, text[i]))

extractLineCandidates(message) ==
  LET Lines(normalized) ==
        IF normalized = <<>> THEN <<>>
        ELSE SelectSeq(
               [i \in DOMAIN SplitFrom(normalized, 1, <<>>) |->
                  normalizeWhitespace(SplitFrom(normalized, 1, <<>>)[i])],
               LAMBDA l : Len(l) >= 2 /\ \E i \in DOMAIN l : IsLetterOrDigit(l[i]))
  IN Lines(normalizeWhitespace(message))

\* The titles of the model and the order of a.title.localeCompare(b.title,
\* "ar") among them once normalized (lower case before upper case).
EShop == <<"E", "-", "s", "h", "o", "p">>

KARTI == <<"K", "A", "R", "T", "I">>

MaxIt == <<"M", "a", "x", " ", "I", "t">>

MaxItLower == <<"m", "a", "x", " ", " ", "i", "t">>

TitleCollation == <<EShop, KARTI, normalizeWhitespace(MaxItLower), MaxIt>>

DOCS_SEED_TITLES == <<MaxIt, EShop>>

DocEntryOf(title, url) ==
  [id |-> slugifyTitle(title),
   title |-> normalizeWhitespace(title),
   url |-> url,
   tags |-> <<"en">>]

\* [...entries].sort((a, b) => a.title.localeCompare(b.title, "ar")), a
\* stable sort.
SortedByTitle(entries) ==
  LET Rank(entry) == CHOOSE k \in DOMAIN TitleCollation :
                       TitleCollation[k] = entry.title
      Before(i, j) ==
        \/ Rank(entries[i]) < Rank(entries[j])
        \/ Rank(entries[i]) = Rank(entries[j]) /\ i < j
      Place(i) == 1 + Cardinality({j \in DOMAIN entries : Before(j, i)})
  IN [k \in DOMAIN entries |->
        entries[CHOOSE i \in DOMAIN entries : Place(i) = k]]

\* ensureDocsFileDev: the docs file afterwards (seeded if there was none).
ensureDocsFileDev(file) ==
  IF file.exists THEN file
  ELSE [exists |-> TRUE,
        docs |-> [i \in DOMAIN DOCS_SEED_TITLES |->
                    DocEntryOf(DOCS_SEED_TITLES[i], "")]]

\* The docs bundled with the build (import of ../shared/docs.json).
BundledDocs == <<DocEntryOf(KARTI, "https://docs/karti")>>

\* readDocs: what it returns and the docs file afterwards.  In production
\* the import of the bundled file succeeds (imported) or throws.
readDocs(prod, file, imported) ==
  IF prod
  THEN [returns |-> IF imported THEN BundledDocs
                    ELSE IF file.exists THEN file.docs
                    ELSE <<>>,
        file |-> file]
  ELSE [returns |-> ensureDocsFileDev(file).docs,
        file |-> ensureDocsFileDev(file)]

writeDocs(prod, file, entries) ==
  IF prod THEN file
  ELSE [exists |-> TRUE, docs |-> SortedByTitle(entries)]

\* mergeDocs from the i-th incoming entry on, list, added and updated
\* being what the entries before it made them.
RECURSIVE MergeFrom(_, _, _)
MergeFrom(incoming, i, merged) ==
  IF i > Len(incoming) THEN merged
  ELSE LET doc == incoming[i]
           at == {k \in DOMAIN merged.list : merged.list[k].id = doc.id}
       IN IF at = {}
          THEN MergeFrom(incoming, i + 1,
                         [list |-> Append(merged.list, doc),
                          added |-> Append(merged.added, doc),
                          updated |-> merged.updated])
          ELSE LET k == CHOOSE k \in at : TRUE
                   prev == merged.list[k]
               IN IF prev.title # doc.title \/ prev.url # doc.url
                       \/ prev.tags # doc.tags
                  THEN MergeFrom(incoming, i + 1,
                                 [list |-> [merged.list EXCEPT ![k] = doc],
                                  added |-> merged.added,
                                  updated |-> Append(merged.updated, doc)])
                  ELSE MergeFrom(incoming, i + 1, merged)

mergeDocs(existing, incoming) ==
  MergeFrom(incoming, 1, [list |-> existing, added |-> <<>>, updated |-> <<>>])

NoChange == [added |-> <<>>, updated |-> <<>>]

UrlIn(docs, id) ==
  IF \E k \in DOMAIN docs : docs[k].id = id
  THEN docs[CHOOSE k \in DOMAIN docs : docs[k].id = id].url
  ELSE ""

upsertDocsFromTitles_noProdCheck(prod, file, titles, imported) ==
  IF titles = <<>> THEN [returns |-> NoChange, file |-> file]
  ELSE LET Upsert(read) ==
             LET Write(merged) ==
                   [returns |-> [added |-> merged.added,
                                 updated |-> merged.updated],
                    file |-> writeDocs(prod, read.file, merged.list)]
             IN Write(mergeDocs(read.returns,
                                [i \in DOMAIN titles |->
                                   DocEntryOf(titles[i],
                                              UrlIn(read.returns,
                                                    slugifyTitle(titles[i])))]))
       IN Upsert(readDocs(prod, file, imported))

upsertDocsFromTitles(prod, file, titles, imported) ==
  IF prod THEN [returns |-> NoChange, file |-> file]
  ELSE IF titles = <<>> THEN [returns |-> NoChange, file |-> file]
  ELSE LET Upsert(read) ==
             LET Write(merged) ==
                   [returns |-> [added |-> merged.added,
                                 updated |-> merged.updated],
                    file |-> writeDocs(prod, read.file, merged.list)]
             IN Write(mergeDocs(read.returns,
                                [i \in DOMAIN titles |->
                                   DocEntryOf(titles[i],
                                              UrlIn(read.returns,
                                                    slugifyTitle(titles[i])))]))
       IN Upsert(readDocs(prod, file, imported))

extractAndStoreDocs(prod, file, message, imported) ==
  IF prod THEN [returns |-> NoChange, file |-> file]
  ELSE LET Store(candidates) ==
             IF Len(candidates) < 3 THEN [returns |-> NoChange, file |-> file]
             ELSE upsertDocsFromTitles(prod, file, candidates, imported)
       IN Store(extractLineCandidates(message))

\* getDocsFilePath: null in production, the path of the docs file otherwise.
getDocsFilePath(prod, file) ==
  IF prod THEN [returns |-> "null", file |-> file]
  ELSE [returns |-> "shared/docs.json", file |-> ensureDocsFileDev(file)]

(***************************************************************************)
(* The docs store: a server in production or in development, started with  *)
(* or without a docs file, whose exported functions are called one at a    *)
(* time.                                                                   *)
(***************************************************************************)
TitleLists ==
  {<<>>, <<MaxIt>>, <<KARTI>>, <<MaxItLower, KARTI>>, <<EShop, KARTI, MaxIt>>}

Bulleted(a, b, c) == a \o <<"bullet">> \o b \o <<" ", "bullet", " ">> \o c

ChatTexts ==
  {<<>>,
   Bulleted(EShop, KARTI, MaxIt),
   Bulleted(KARTI, <<"?">>, MaxItLower),
   EShop \o <<"LF">> \o KARTI \o <<"LF">> \o MaxIt}

DocsFiles ==
  {NoDocsFile,
   [exists |-> TRUE, docs |-> <<DocEntryOf(KARTI, "https://docs/karti")>>],
   [exists |-> TRUE, docs |-> <<DocEntryOf(MaxIt, "")>>],
   [exists |-> TRUE, docs |-> <<>>]}

InitDocs ==
  /\ NoCaller
  /\ ServerStarted
  /\ PageNotOpened
  /\ StoreNotUsed
  /\ isProd \in BOOLEAN
  /\ docsFile \in DocsFiles
  /\ docsCall = [op |-> "none"]
  /\ upserts = NoUpserts

Called(op, outcome) ==
  /\ docsCall' = [op |-> op, returns |-> outcome.returns]
  /\ docsFile' = outcome.file

CallReadDocs ==
  /\ \E imported \in BOOLEAN :
       Called("readDocs", readDocs(isProd, docsFile, imported))
  /\ UNCHANGED <<isProd, upserts, beyondDocs>>

CallUpsertDocsFromTitles ==
  /\ \E titles \in TitleLists, imported \in BOOLEAN :
       Called("upsertDocsFromTitles",
              upsertDocsFromTitles(isProd, docsFile, titles, imported))
  /\ UNCHANGED <<isProd, upserts, beyondDocs>>

CallExtractAndStoreDocs ==
  /\ \E message \in ChatTexts, imported \in BOOLEAN :
       Called("extractAndStoreDocs",
              extractAndStoreDocs(isProd, docsFile, message, imported))
  /\ UNCHANGED <<isProd, upserts, beyondDocs>>

CallGetDocsFilePath ==
  /\ Called("getDocsFilePath", getDocsFilePath(isProd, docsFile))
  /\ UNCHANGED <<isProd, upserts, beyondDocs>>

NextDocs ==
  \/ CallReadDocs
  \/ CallUpsertDocsFromTitles
  \/ CallExtractAndStoreDocs
  \/ CallGetDocsFilePath

SpecDocs == InitDocs /\ [][NextDocs]_vars

(***************************************************************************)
(* Calls of upsertDocsFromTitles that overlap.  The function is async: it  *)
(* gives up control at await readDocs() and at await writeDocs(), and the  *)
(* steps of another call can run in between.  Each call is followed        *)
(* through its steps: the call itself (the checks before the first await), *)
(* the read of the docs file, the merge, and the write of the file, after  *)
(* which it returns.  ensureDocsFileDev and the read or write of the file  *)
(* that follows it are taken as one step.                                  *)
(***************************************************************************)
IncomingDocs(titles, docs) ==
  [i \in DOMAIN titles |->
     DocEntryOf(titles[i], UrlIn(docs, slugifyTitle(titles[i])))]

InitUpserts ==
  /\ NoCaller
  /\ ServerStarted
  /\ PageNotOpened
  /\ StoreNotUsed
  /\ isProd \in BOOLEAN
  /\ docsFile \in DocsFiles
  /\ docsCall = [op |-> "none"]
  /\ upserts = NoUpserts

\* upsertDocsFromTitles(titles) up to its first await.
UpsertCall(h) ==
  /\ upserts[h].pc = "idle"
  /\ \E titles \in TitleLists :
       upserts' =
         [upserts EXCEPT
            ![h] = [@ EXCEPT
                      !.pc = IF isProd \/ titles = <<>> THEN "returned"
                             ELSE "readDocs",
                      !.titles = titles,
                      !.before = IF docsFile.exists THEN docsFile.docs
                                 ELSE <<>>,
                      !.returns = NoChange]]
  /\ UNCHANGED <<isProd, docsFile, docsCall, beyondDocs>>

\* const docs = await readDocs();
UpsertRead(h) ==
  /\ upserts[h].pc = "readDocs"
  /\ LET Read(read) ==
           /\ docsFile' = read.file
           /\ upserts' = [upserts EXCEPT ![h] = [@ EXCEPT !.pc = "mergeDocs",
                                                          !.docs = read.returns]]
     IN Read(readDocs(isProd, docsFile, FALSE))
  /\ UNCHANGED <<isProd, docsCall, beyondDocs>>

\* const incoming = ...; const merged = mergeDocs(docs, incoming);
UpsertMerge(h) ==
  /\ upserts[h].pc = "mergeDocs"
  /\ upserts' =
       [upserts EXCEPT
          ![h] = [@ EXCEPT
                    !.pc = "writeDocs",
                    !.merged = mergeDocs(upserts[h].docs,
                                         IncomingDocs(upserts[h].titles,
                                                      upserts[h].docs))]]
  /\ UNCHANGED <<isProd, docsFile, docsCall, beyondDocs>>

\* await writeDocs(merged.list); return { added, updated };
UpsertWrite(h) ==
  /\ upserts[h].pc = "writeDocs"
  /\ docsFile' = writeDocs(isProd, docsFile, upserts[h].merged.list)
  /\ upserts' =
       [upserts EXCEPT
          ![h] = [@ EXCEPT !.pc = "returned",
                           !.returns =
                             [added |-> upserts[h].merged.added,
                              updated |-> upserts[h].merged.updated]]]
  /\ UNCHANGED <<isProd, docsCall, beyondDocs>>

NextUpserts ==
  \E h \in Handlers :
    \/ UpsertCall(h)
    \/ UpsertRead(h)
    \/ UpsertMerge(h)
    \/ UpsertWrite(h)

SpecUpserts == InitUpserts /\ [][NextUpserts]_vars

(***************************************************************************)
(* client/src/components/ProRataCalculator.tsx (calculateResult) and its   *)
(* other version, part_001 (calculate).  The value of the date field is    *)
(* the empty text or YYYY-MM-DD, kept as its three numbers; the value of   *)
(* the amount field is a text.                                             *)
(***************************************************************************)
Null == [null |-> TRUE]

\* parseISODate(value).
parseISODate(value) ==
  IF value = <<>> THEN Null
  ELSE IF value[1] = 0 \/ value[2] = 0 \/ value[3] = 0 THEN Null
  ELSE [null |-> FALSE, date |-> DateUTC(value[1], value[2] - 1, value[3])]

nextAnchorDate(date) ==
  LET Following(sameMonthAnchor) ==
        IF getTime(date) < getTime(sameMonthAnchor) THEN sameMonthAnchor
        ELSE DateUTC(getUTCFullYear(date), getUTCMonth(date) + 1, 15)
  IN Following(DateUTC(getUTCFullYear(date), getUTCMonth(date), 15))

previousAnchorDate(date) ==
  LET Previous(currentAnchor) ==
        IF getTime(date) <= getTime(currentAnchor)
        THEN DateUTC(getUTCFullYear(date), getUTCMonth(date) - 1, 15)
        ELSE currentAnchor
  IN Previous(DateUTC(getUTCFullYear(date), getUTCMonth(date), 15))

\* Math.ceil(n / d) for n >= 0 and d > 0.
MathCeil(n, d) == (n + d - 1) \div d

\* A text of digits with at most one point between them, which Number reads
\* as a decimal number (any other text of the model gives NaN).
IsDecimalText(text) ==
  /\ text # <<>>
  /\ \A i \in DOMAIN text : text[i] \in Range(DigitChars) \cup {"."}
  /\ Cardinality({i \in DOMAIN text : text[i] = "."}) <= 1
  /\ \E i \in DOMAIN text : text[i] # "."

\* raw.trim() === "" ? NaN : Number(raw)
NumberOfField(raw) ==
  IF raw = <<>> THEN NaN
  ELSE IF IsDecimalText(raw) THEN Parsed(raw)
  ELSE NaN

\* text.replace(",", "."): the first comma becomes a point.
ReplaceComma(text) ==
  IF \E i \in DOMAIN text : text[i] = ","
  THEN [text EXCEPT ![CHOOSE i \in DOMAIN text :
                        /\ text[i] = ","
                        /\ \A j \in 1 .. i - 1 : text[j] # ","] = "."]
  ELSE text

\* The days of a cycle and of its used part, as both versions compute them.
CycleDaysOf(previousInvoice, nextInvoice) ==
  Max(1, MathRound(getTime(nextInvoice) - getTime(previousInvoice), DAY))

UsedDaysOf(activation, nextInvoice, cycleDays) ==
  Min(cycleDays,
      MathCeil(Max(0, getTime(nextInvoice) - getTime(activation)), DAY))

Percentage(usedDays, cycleDays) ==
  MathMin(Whole(100),
          MathMax(Whole(0),
                  Prod(Quot(Whole(usedDays), Whole(cycleDays)), Whole(100))))

calculateResult(invoiceValueRaw, activationRaw) ==
  LET Result(invoiceValue, activationDate, nextInvoice, previousInvoice) ==
        LET Days(cycleDays, usedDays) ==
              [null |-> FALSE,
               activation |-> activationDate,
               nextInvoice |-> nextInvoice,
               previousInvoice |-> previousInvoice,
               coverageEnd |-> getTime(nextInvoice) - DAY,
               cycleDays |-> cycleDays,
               usedDays |-> usedDays,
               percentage |-> Percentage(usedDays, cycleDays),
               invoiceValue |-> invoiceValue,
               proratedValue |->
                 Quot(Prod(invoiceValue, Percentage(usedDays, cycleDays)),
                      Whole(100))]
            Cycle(cycleDays) ==
              Days(cycleDays, UsedDaysOf(activationDate, nextInvoice, cycleDays))
        IN Cycle(CycleDaysOf(previousInvoice, nextInvoice))
      Parsed2(invoiceValue, activation) ==
        IF activation.null \/ ~isFinite(invoiceValue) THEN Null
        ELSE Result(invoiceValue, activation.date,
                    nextAnchorDate(activation.date),
                    previousAnchorDate(activation.date))
  IN Parsed2(NumberOfField(invoiceValueRaw), parseISODate(activationRaw))

\* calculate of part_001 (its nextAnchorDate and previousAnchorDate are the
\* ones above, its addOneMonthKeep15 is inlined).
calculate(activationRaw, monthlyRaw) ==
  LET Result(monthlyValue, activation, nextInv, prevInv) ==
        LET Days(cycleDays, usedDays) ==
              [null |-> FALSE,
               activation |-> activation,
               nextInvoice |-> nextInv,
               previousInvoice |-> prevInv,
               coverageEndProrata |-> getTime(nextInv) - DAY,
               coverageEndAdvance |->
                 DateUTC(getUTCFullYear(nextInv), getUTCMonth(nextInv) + 1, 15),
               cycleDays |-> cycleDays,
               usedDays |-> usedDays,
               percentage |-> Percentage(usedDays, cycleDays),
               monthlyValue |-> monthlyValue,
               proratedValue |->
                 Quot(Prod(monthlyValue, Whole(usedDays)), Whole(cycleDays)),
               totalInvoice |->
                 Sum(monthlyValue,
                     Quot(Prod(monthlyValue, Whole(usedDays)),
                          Whole(cycleDays)))]
            Cycle(cycleDays) ==
              Days(cycleDays, UsedDaysOf(activation, nextInv, cycleDays))
        IN Cycle(CycleDaysOf(prevInv, nextInv))
      Parsed2(monthlyValue, activation) ==
        IF activation.null \/ ~isFinite(monthlyValue) THEN Null
        ELSE Result(monthlyValue, activation.date,
                    nextAnchorDate(activation.date),
                    previousAnchorDate(activation.date))
  IN Parsed2(NumberOfField(ReplaceComma(monthlyRaw)),
             parseISODate(activationRaw))

(***************************************************************************)
(* The pro-rata calculator component: the user picks an activation date    *)
(* (pivot, a day of the years of the model) or clears the date field,      *)
(* types an amount, and the component computes its result.                 *)
(***************************************************************************)
DateFieldValues == {<<>>, ymd(pivot)}

InitComponent ==
  /\ pivot \in { p \in Pivots : getUTCFullYear(p) \in Years /\ p % DAY = 0 }
  /\ anchorDay = 15
  /\ call = [op |-> "none"]
  /\ ServerStarted
  /\ PageNotOpened
  /\ StoreNotUsed
  /\ DocsNotUsed

CallCalculateResult ==
  /\ call.op = "none"
  /\ \E invoiceValueRaw \in AmountTexts, activationRaw \in DateFieldValues :
       call' = [op |-> "calculateResult",
                amount |-> invoiceValueRaw,
                activation |-> activationRaw,
                result |-> calculateResult(invoiceValueRaw, activationRaw)]
  /\ UNCHANGED <<pivot, anchorDay, beyondProrata>>

CallCalculate ==
  /\ call.op = "none"
  /\ \E monthlyRaw \in AmountTexts, activationRaw \in DateFieldValues :
       call' = [op |-> "calculate",
                amount |-> monthlyRaw,
                activation |-> activationRaw,
                result |-> calculate(activationRaw, monthlyRaw)]
  /\ UNCHANGED <<pivot, anchorDay, beyondProrata>>

NextComponent ==
  \/ CallCalculateResult
  \/ CallCalculate
  \/ Return

SpecComponent == InitComponent /\ [][NextComponent]_vars

(***************************************************************************)
(* The SSE stream of a chat reply: the server side of /api/chat            *)
(* (server/routes.ts and part_012) and the read loop of handleSend         *)
(* (client/src/components/Chatbot.tsx).  Texts are sequences of            *)
(* characters, "LF" being the line feed.  The transport delivers the       *)
(* bytes in order, in chunks of any length.                                *)
(***************************************************************************)
DataPrefix == <<"d", "a", "t", "a", ":", " ">>

DoneText == <<"[", "D", "O", "N", "E", "]">>

ObjectOpen == <<"{", "\"", "c", "o", "n", "t", "e", "n", "t", "\"", ":", "\"">>

ObjectClose == <<"\"", "}">>

\* The characters of a JSON string for a text: the line feed is escaped.
RECURSIVE Escaped(_)
Escaped(text) ==
  IF text = <<>> THEN <<>>
  ELSE (IF text[1] = "LF" THEN <<"\\", "n">> ELSE <<text[1]>>)
         \o Escaped(Tail(text))

\* JSON.stringify({ content })
JSONStringify(content) == ObjectOpen \o Escaped(content) \o ObjectClose

\* The text of a JSON string body, or a failure for a bare quote, a bare
\* line feed or an escape that is not complete.
RECURSIVE Unescaped(_)
Unescaped(body) ==
  LET With(c, rest) == [ok |-> rest.ok, text |-> <<c>> \o rest.text]
  IN IF body = <<>> THEN [ok |-> TRUE, text |-> <<>>]
     ELSE IF body[1] \in {"\"", "LF"} THEN [ok |-> FALSE, text |-> <<>>]
     ELSE IF body[1] = "\\"
     THEN (IF Len(body) >= 2 /\ body[2] = "n"
           THEN With("LF", Unescaped(SubSeq(body, 3, Len(body))))
           ELSE [ok |-> FALSE, text |-> <<>>])
     ELSE With(body[1], Unescaped(Tail(body)))

\* JSON.parse(data) for the objects the server writes: { content } parses,
\* any part of it throws.
JSONParse(data) ==
  IF /\ Len(data) >= Len(ObjectOpen) + Len(ObjectClose)
     /\ SubSeq(data, 1, Len(ObjectOpen)) = ObjectOpen
     /\ SubSeq(data, Len(data) - Len(ObjectClose) + 1, Len(data)) = ObjectClose
  THEN Unescaped(SubSeq(data, Len(ObjectOpen) + 1,
                        Len(data) - Len(ObjectClose)))
  ELSE [ok |-> FALSE, text |-> <<>>]

\* res.write of "data: ...\n\n"
Frame(data) == DataPrefix \o data \o <<"LF", "LF">>

\* chunk.split("\n")
RECURSIVE split(_)
split(text) ==
  IF \E i \in DOMAIN text : text[i] = "LF"
  THEN LET At(i) ==
             <<SubSeq(text, 1, i - 1)>> \o split(SubSeq(text, i + 1, Len(text)))
       IN At(CHOOSE i \in DOMAIN text :
               /\ text[i] = "LF"
               /\ \A j \in 1 .. i - 1 : text[j] # "LF")
  ELSE <<text>>

startsWith(line, prefix) ==
  /\ Len(line) >= Len(prefix)
  /\ SubSeq(line, 1, Len(prefix)) = prefix

RECURSIVE trim(_)
trim(text) ==
  IF text = <<>> THEN text
  ELSE IF text[1] \in {" ", "LF"} THEN trim(Tail(text))
  ELSE IF text[Len(text)] \in {" ", "LF"}
  THEN trim(SubSeq(text, 1, Len(text) - 1))
  ELSE text

\* for (const line of lines) { ... } from the i-th line on, read being the
\* accumulated text and streamDone so far.
RECURSIVE ReadLines(_, _, _)
ReadLines(lines, i, read) ==
  IF i > Len(lines) THEN read
  ELSE IF ~startsWith(lines[i], DataPrefix) THEN ReadLines(lines, i + 1, read)
  ELSE LET Data(data) ==
             IF data = <<>> THEN ReadLines(lines, i + 1, read)
             ELSE IF data = DoneText THEN [read EXCEPT !.streamDone = TRUE]
             ELSE LET Parsed1(parsed) ==
                        IF parsed.ok /\ parsed.text # <<>>
                        THEN ReadLines(lines, i + 1,
                                       [read EXCEPT
                                          !.accumulated = @ \o parsed.text])
                        ELSE ReadLines(lines, i + 1, read)
                  IN Parsed1(JSONParse(data))
       IN Data(trim(SubSeq(lines[i], Len(DataPrefix) + 1, Len(lines[i]))))

\* The content deltas the model of the completion produces.
DeltaTexts == {<<"H", "i">>, <<"!", "LF">>}

InitStream ==
  /\ NoCaller
  /\ ServerStarted
  /\ PageNotOpened
  /\ DocsNotUsed
  /\ StoreNotUsed

\* The response is a stream: the server has sent its headers and the client
\* has its reader.
StreamOpens ==
  /\ stream.phase = "none"
  /\ stream' = [stream EXCEPT !.phase = "open"]
  /\ UNCHANGED <<prorataVars, limiterVars, homeVars, storeVars, chatVars,
                 docsVars>>

\* if (content) res.write(...)
ServerWrite ==
  /\ stream.phase # "none"
  /\ ~stream.ended
  /\ Len(stream.deltas) < MaxDeltas
  /\ \E content \in DeltaTexts :
       stream' = [stream EXCEPT
                    !.deltas = Append(@, content),
                    !.wire = @ \o Frame(JSONStringify(content))]
  /\ UNCHANGED <<prorataVars, limiterVars, homeVars, storeVars, chatVars,
                 docsVars>>

\* keepAlive of part_012: res.write(":\n\n")
ServerKeepAlive ==
  /\ stream.phase # "none"
  /\ ~stream.ended
  /\ stream.keepAlives < MaxKeepAlives
  /\ stream' = [stream EXCEPT !.keepAlives = @ + 1,
                              !.wire = @ \o <<":", "LF", "LF">>]
  /\ UNCHANGED <<prorataVars, limiterVars, homeVars, storeVars, chatVars,
                 docsVars>>

\* res.write("data: [DONE]\n\n"); res.end();
ServerDone ==
  /\ stream.phase # "none"
  /\ ~stream.ended
  /\ stream' = [stream EXCEPT !.ended = TRUE,
                              !.wire = @ \o Frame(DoneText)]
  /\ UNCHANGED <<prorataVars, limiterVars, homeVars, storeVars, chatVars,
                 docsVars>>

\* reader.read() returns the next n bytes; the lines of the chunk are read,
\* and with [DONE] among them the loop ends.
ClientRead ==
  /\ stream.phase = "open"
  /\ \E n \in 1 .. Len(stream.wire) :
       LET Read(read) ==
             stream' =
               [stream EXCEPT
                  !.wire = SubSeq(@, n + 1, Len(@)),
                  !.accumulated = read.accumulated,
                  !.streamDone = read.streamDone,
                  !.content = IF read.accumulated # stream.accumulated
                              THEN read.accumulated ELSE @,
                  !.phase = IF read.streamDone THEN "finished" ELSE @]
       IN Read(ReadLines(split(SubSeq(stream.wire, 1, n)), 1,
                         [accumulated |-> stream.accumulated,
                          streamDone |-> FALSE]))
  /\ UNCHANGED <<prorataVars, limiterVars, homeVars, storeVars, chatVars,
                 docsVars>>

\* reader.read() returns done: the loop ends.
ClientReadDone ==
  /\ stream.phase = "open"
  /\ stream.ended
  /\ stream.wire = <<>>
  /\ stream' = [stream EXCEPT
                  !.phase = "finished",
                  !.content = IF stream.accumulated # <<>>
                              THEN stream.accumulated ELSE @]
  /\ UNCHANGED <<prorataVars, limiterVars, homeVars, storeVars, chatVars,
                 docsVars>>

NextStream ==
  \/ StreamOpens
  \/ ServerWrite
  \/ ServerKeepAlive
  \/ ServerDone
  \/ ClientRead
  \/ ClientReadDone

SpecStream == InitStream /\ [][NextStream]_vars

(***************************************************************************)
(* The calendar, stated apart from the Date arithmetic above, for the      *)
(* properties below.                                                       *)
(***************************************************************************)
IsLeapYear(y) == (y % 4 = 0 /\ y % 100 # 0) \/ y % 400 = 0

\* Number of days of month m (0 = January) of year y.
LastDayOfMonth(y, m) ==
  IF m = 1 THEN (IF IsLeapYear(y) THEN 29 ELSE 28)
  ELSE IF m \in {3, 5, 8, 10} THEN 30 ELSE 31

\* The anchor day of the month of t, clamped to that month.
ClampedAnchor(t, anchor) ==
  Min(anchor, LastDayOfMonth(getUTCFullYear(t), getUTCMonth(t)))

IsMidnight(t) == t % DAY = 0

\* The months of a date counted from year 0.
MonthIndex(t) == 12 * getUTCFullYear(t) + getUTCMonth(t)

OnDate(t, y, m, d) ==
  getUTCFullYear(t) = y /\ getUTCMonth(t) + 1 = m /\ getUTCDate(t) = d

\* The pivot falls on the anchor date of its month.
PivotOnAnchor == getUTCDate(pivot) = ClampedAnchor(pivot, anchorDay)

(***************************************************************************)
(* Properties.                                                             *)
(***************************************************************************)
\* C1: the cycle anchorCycle returns contains the pivot: start <= pivot < end,
\* the start inclusive and the end exclusive.
C1_PivotInsideCycle ==
  call.op = "anchorCycle" =>
    /\ getTime(call.result.start) <= getTime(pivot)
    /\ getTime(pivot) < getTime(call.result.end)

\* C1 witness: a cycle computed for a pivot before its month's anchor, with
\* an anchor day the start month does not have.
C1_Witness ==
  /\ call.op = "anchorCycle"
  /\ anchorDay = 31
  /\ OnDate(pivot, 2025, 3, 5)
  /\ OnDate(call.result.start, 2025, 2, 28)

\* C2: start and end of the cycle are calendar dates at midnight in two
\* consecutive months, each on the anchor day clamped to its month, with
\* end > start and days the whole number of days between them.
C2_CycleOnClampedAnchors ==
  call.op = "anchorCycle" =>
    LET s == call.result.start
        e == call.result.end
    IN /\ IsMidnight(s) /\ IsMidnight(e)
       /\ MonthIndex(e) = MonthIndex(s) + 1
       /\ getUTCDate(s) = ClampedAnchor(s, anchorDay)
       /\ getUTCDate(e) = ClampedAnchor(e, anchorDay)
       /\ e > s
       /\ call.result.days * DAY = e - s

\* C2 witness: a cycle of anchor day 31 that runs from December into January
\* of the next year.
C2_Witness ==
  /\ call.op = "anchorCycle"
  /\ anchorDay = 31
  /\ OnDate(call.result.start, 2024, 12, 31)
  /\ OnDate(call.result.end, 2025, 1, 31)
  /\ call.result.days = 31

\* C3: prorate returns a whole usedDays with 0 <= usedDays <= days, the ratio
\* usedDays / days, which lies in 0..1, and the value monthly * ratio.
C3_ProrateResult ==
  call.op = "prorate" =>
    LET r == call.result
    IN /\ r.usedDays \in Nat
       /\ r.usedDays <= r.days
       /\ r.days > 0
       /\ r.ratio = Quot(Whole(r.usedDays), Whole(r.days))
       /\ r.value = Prod(Milli(call.monthly), r.ratio)

\* C3 witness: a prorate call in a cycle of 31 days with part of it used.
C3_Witness ==
  /\ call.op = "prorate"
  /\ call.monthly > 0
  /\ call.result.days = 31
  /\ call.result.usedDays = 17

\* C4: in mode elapsed usedDays is the number of days from the cycle start to
\* the pivot, in mode remaining the number of days from the pivot to the
\* cycle end; both modes use the same cycle and their usedDays add up to days.
C4_ModesSplitTheCycle ==
  call.op = "prorate" =>
    LET r == call.result
        otherMode == IF call.mode = "elapsed" THEN "remaining" ELSE "elapsed"
        other == prorate(call.monthly, pivot, anchorDay, otherMode)
    IN /\ call.mode = "elapsed" => r.usedDays = DayOf(pivot) - DayOf(r.start)
       /\ call.mode = "remaining" => r.usedDays = DayOf(r.end) - DayOf(pivot)
       /\ other.start = r.start /\ other.end = r.end /\ other.days = r.days
       /\ r.usedDays + other.usedDays = r.days

\* C4 witness: an elapsed call ten days into a cycle of 29 days.
C4_Witness ==
  /\ call.op = "prorate"
  /\ call.mode = "elapsed"
  /\ call.result.usedDays = 10
  /\ call.result.days = 29

\* C5: a pivot on the anchor date of its month is in the cycle that starts
\* on it, never in the one that ends on it: anchorCycle returns start = pivot
\* (as a date), and prorate returns usedDays = 0 in mode elapsed and
\* usedDays = days in mode remaining.
C5_AnchorDateStartsCycle ==
  PivotOnAnchor =>
    /\ call.op = "anchorCycle" =>
         /\ call.result.start = toUtcMidnight(pivot)
         /\ call.result.end # toUtcMidnight(pivot)
    /\ (call.op = "prorate" /\ call.mode = "elapsed") =>
         call.result.usedDays = 0
    /\ (call.op = "prorate" /\ call.mode = "remaining") =>
         call.result.usedDays = call.result.days

\* C5 witness: a remaining-mode call for a pivot on a clamped anchor date
\* (anchor day 30, 28 February 2025).
C5_Witness ==
  /\ call.op = "prorate"
  /\ call.mode = "remaining"
  /\ anchorDay = 30
  /\ OnDate(pivot, 2025, 2, 28)
  /\ call.result.usedDays = call.result.days

\* C6: firstAnchorAfterActivation returns the first anchor on or after the
\* activation: the anchor of the activation's month when that anchor is at
\* or after the activation (the activation on the anchor date included),
\* next month's anchor otherwise.
C6_FirstAnchorOnOrAfter ==
  call.op = "firstAnchorAfterActivation" =>
    LET act == toUtcMidnight(pivot)
        same == DateUTC(getUTCFullYear(act), getUTCMonth(act),
                        ClampedAnchor(act, anchorDay))
        nextFirst == DateUTC(getUTCFullYear(act), getUTCMonth(act) + 1, 1)
        next == nextFirst + (ClampedAnchor(nextFirst, anchorDay) - 1) * DAY
    IN call.result = IF same >= act THEN same ELSE next

\* C7: Scenario A.  With anchor day 15, an activation on 2025-10-14 and a
\* monthly amount of 30.000, the first anchor is 2025-10-15, its cycle runs
\* from 2025-09-15 to 2025-10-15 and has 30 days, one day is prorated, and
\* the prorated amount renders as 1.000 (next to a monthly 30.000).
C7_ScenarioA ==
  ( /\ call.op = "computeActivationProrata"
    /\ call.monthly = 30000
    /\ anchorDay = 15
    /\ OnDate(pivot, 2025, 10, 14) ) =>
    LET r == call.result
        anchor == firstAnchorAfterActivation(pivot, anchorDay)
        cycle == cycleFromAnchor(anchor, anchorDay)
    IN /\ r.period = << <<2025, 10, 14>>, <<2025, 10, 15>> >>
       /\ formatDateIso(anchor) = <<2025, 10, 15>>
       /\ formatDateIso(cycle.start) = <<2025, 9, 15>>
       /\ formatDateIso(cycle.end) = <<2025, 10, 15>>
       /\ cycle.days = 30
       /\ r.days = 30
       /\ r.proDays = 1
       /\ r.proAmount = Prod(Milli(30000), Quot(Whole(1), Whole(30)))
       /\ fmt3(r.proAmount) = <<"1", ".", "0", "0", "0">>
       /\ fmt3(r.monthly) = <<"3", "0", ".", "0", "0", "0">>

\* C7 witness: the activation summary of Scenario A, computed at noon of
\* 2025-10-14.
C7_Witness ==
  /\ call.op = "computeActivationProrata"
  /\ call.monthly = 30000
  /\ anchorDay = 15
  /\ OnDate(pivot, 2025, 10, 14)
  /\ ~IsMidnight(pivot)
  /\ call.result.proDays = 1
  /\ call.result.days = 30

\* C8: Scenario D.  prorate(100, 2024-02-20, 10, "elapsed") returns the cycle
\* from 2024-02-10 to 2024-03-10 with days = 29 and usedDays = 10, and its
\* value renders with three decimals as 34.483.
C8_ScenarioD ==
  ( /\ call.op = "prorate"
    /\ call.monthly = 100000
    /\ call.mode = "elapsed"
    /\ anchorDay = 10
    /\ OnDate(pivot, 2024, 2, 20) ) =>
    LET r == call.result
    IN /\ formatDateIso(r.start) = <<2024, 2, 10>>
       /\ formatDateIso(r.end) = <<2024, 3, 10>>
       /\ r.days = 29
       /\ r.usedDays = 10
       /\ fmt3(r.value) = <<"3", "4", ".", "4", "8", "3">>

\* C8 witness: the call of Scenario D and its result.
C8_Witness ==
  /\ call.op = "prorate"
  /\ call.monthly = 100000
  /\ call.mode = "elapsed"
  /\ anchorDay = 10
  /\ OnDate(pivot, 2024, 2, 20)
  /\ IsMidnight(pivot)
  /\ call.result.usedDays = 10
  /\ call.result.days = 29

\* C9: with anchor day 29 a cycle boundary in February falls on the 29th in
\* the leap year 2024 and on the 28th in a year that is not a leap year, and
\* the cycle of the pivot 2024-02-29 has a boundary on 2024-02-29 and 29 or
\* 30 days.
C9_LeapYearAnchor ==
  (call.op = "anchorCycle" /\ anchorDay = 29) =>
    LET s == call.result.start
        e == call.result.end
        FebDay(t) == IF getUTCFullYear(t) = 2024 THEN 29 ELSE 28
    IN /\ getUTCMonth(s) = 1 => getUTCDate(s) = FebDay(s)
       /\ getUTCMonth(e) = 1 => getUTCDate(e) = FebDay(e)
       /\ getUTCMonth(pivot) = 1 => (getUTCMonth(s) = 1 \/ getUTCMonth(e) = 1)
       /\ OnDate(pivot, 2024, 2, 29) =>
            /\ OnDate(s, 2024, 2, 29) \/ OnDate(e, 2024, 2, 29)
            /\ call.result.days \in {29, 30}

\* C9 witness: the cycle of the pivot 2024-02-29 with anchor day 29, which
\* runs from 2024-02-29 to 2024-03-29.
C9_Witness ==
  /\ call.op = "anchorCycle"
  /\ anchorDay = 29
  /\ OnDate(pivot, 2024, 2, 29)
  /\ OnDate(call.result.start, 2024, 2, 29)
  /\ OnDate(call.result.end, 2024, 3, 29)
  /\ call.result.days = 29

\* A VAT view has been rendered at the rate rate and computeProrata has then
\* been given its gross amount at the same rate.
RoundTrip ==
  /\ call.op = "computeProrata"
  /\ "of" \in DOMAIN call
  /\ call.result.vatRate = VAT_RATE

\* computeProrata has been given a gross amount of 116 at the rate 0.16.
ScenarioC ==
  /\ call.op = "computeProrata"
  /\ call.input.mode = "gross"
  /\ call.result.vatRate = VAT_RATE
  /\ Number(call.input.fullInvoiceGross) = NumberOf(116)

\* From the gross amount 116.000 the net amount is the number 100, rendered
\* JD 100.000, and the VAT is the number 16, both as gross - net and as
\* net * rate.
ScenarioCExact ==
  LET gross == call.input.fullInvoiceGross
      net == call.result.monthlyNet
  IN /\ Number(net) = NumberOf(100)
     /\ jd3(net) = <<"J", "D", " ", "1", "0", "0", ".", "0", "0", "0">>
     /\ Number(Diff(gross, net)) = NumberOf(16)
     /\ Number(Prod(net, call.result.vatRate)) = NumberOf(16)
     /\ fmt3(Diff(gross, net)) = <<"1", "6", ".", "0", "0", "0">>

\* The numbers a and b, both positive, differ by at most the 10^9-th part
\* of the larger.
Close(a, b) ==
  LET e0 == Min(a.e, b.e)
      x == BigShiftLeft(a.m, a.e - e0)
      y == BigShiftLeft(b.m, b.e - e0)
      hi == IF BigCmp(x, y) >= 0 THEN x ELSE y
      lo == IF BigCmp(x, y) >= 0 THEN y ELSE x
  IN /\ a.m # <<>>
     /\ b.m # <<>>
     /\ BigCmp(BigMul(BigSub(hi, lo), BigOf(1000000000)), hi) <= 0

\* C10 as claimed: the gross amount net + net * rate of a VAT view, divided
\* by 1 + rate by computeProrata, gives back the net amount, the same number,
\* and gross less that net amount is the number net * rate; the gross amount
\* 116.000 at 0.16 gives the net amount 100.000 and the VAT 16.000.
C10_RoundTripExact ==
  /\ RoundTrip =>
       LET net == Number(call.of.net)
           gross == Number(call.of.gross)
           back == Number(call.result.monthlyNet)
       IN /\ back = net
          /\ NumSub(gross, back) = NumMul(back, Number(call.result.vatRate))
  /\ ScenarioC => ScenarioCExact

\* C10 amended: the net amount computeProrata gives back differs from the
\* net amount of the VAT view by at most the 10^9-th part of it, and so do
\* gross less that net amount and net * rate; the gross amount 116.000 at
\* 0.16 gives exactly the net amount 100.000 and the VAT 16.000.
C10_RoundTripWithinTolerance ==
  /\ RoundTrip =>
       LET net == Number(call.of.net)
           gross == Number(call.of.gross)
           back == Number(call.result.monthlyNet)
       IN /\ Close(back, net)
          /\ NumCmp(gross, back) > 0
          /\ Close(NumSub(gross, back), NumMul(back, Number(call.result.vatRate)))
  /\ ScenarioC => ScenarioCExact

\* C10 witness: the VAT view of a net amount of 100 has been rendered, its
\* gross amount, the number 116, has been given to computeProrata, and the
\* net amount that comes back is 100.
C10_Witness ==
  /\ RoundTrip
  /\ ScenarioC
  /\ Number(call.of.net) = NumberOf(100)
  /\ Number(call.result.monthlyNet) = NumberOf(100)

\* The input of a computeProrata call with the other mode and the amount
\* amount, the activation date and the optional properties kept.
OtherModeInput(input, amount) ==
  [k \in DOMAIN input \cap {"activationDate", "vatRate", "anchorDay"} |-> input[k]]
    @@ (IF input.mode = "gross"
        THEN [mode |-> "monthly", monthlyNet |-> amount]
        ELSE [mode |-> "gross", fullInvoiceGross |-> amount])

\* C11: computeProrata in mode gross derives monthlyNet as
\* fullInvoiceGross / (1 + vatRate) and returns fullInvoiceGross as given; in
\* mode monthly it returns monthlyNet as given and no fullInvoiceGross; the
\* dates, proDays and ratio are those of the other mode for the same
\* activation date and anchor day, whatever the amount, and prorataNet is
\* monthlyNet * ratio.
C11_GrossAndMonthlyModes ==
  call.op = "computeProrata" =>
    LET input == call.input
        r == call.result
        vatRate == IF "vatRate" \in DOMAIN input THEN input.vatRate ELSE Milli(160)
        other == computeProrata(OtherModeInput(input, Milli(30000)))
    IN /\ input.mode = "gross" =>
            /\ r.monthlyNet = Quot(input.fullInvoiceGross, Sum(Whole(1), vatRate))
            /\ "fullInvoiceGross" \in DOMAIN r
            /\ r.fullInvoiceGross = input.fullInvoiceGross
            /\ "fullInvoiceGross" \notin DOMAIN other
       /\ input.mode = "monthly" =>
            /\ r.monthlyNet = input.monthlyNet
            /\ "fullInvoiceGross" \notin DOMAIN r
            /\ "fullInvoiceGross" \in DOMAIN other
       /\ r.vatRate = vatRate
       /\ r.prorataNet = Prod(r.monthlyNet, r.ratio)
       /\ other.cycleStartUTC = r.cycleStartUTC
       /\ other.cycleEndUTC = r.cycleEndUTC
       /\ other.nextCycleEndUTC = r.nextCycleEndUTC
       /\ other.cycleDays = r.cycleDays
       /\ other.proDays = r.proDays
       /\ other.ratio = r.ratio

\* C11 witness: a call in mode gross with the amount 116.000, no vatRate
\* given, and some days prorated.
C11_Witness ==
  /\ call.op = "computeProrata"
  /\ call.input.mode = "gross"
  /\ "vatRate" \notin DOMAIN call.input
  /\ call.input.fullInvoiceGross = Milli(116000)
  /\ call.result.fullInvoiceGross = Milli(116000)
  /\ call.result.monthlyNet = Quot(Milli(116000), Sum(Whole(1), Milli(160)))
  /\ call.result.proDays = 5

\* The amount and the anchor day of a call of prorate or computeProrata.
CallAmount ==
  IF call.op = "prorate" THEN call.monthly
  ELSE IF call.input.mode = "gross" THEN call.input.fullInvoiceGross.k
  ELSE call.input.monthlyNet.k

CallAnchorDay ==
  IF call.op = "prorate" THEN anchorDay
  ELSE IF "anchorDay" \in DOMAIN call.input THEN call.input.anchorDay ELSE 15

\* C12: a call of prorate or computeProrata with a negative amount or with an
\* anchor day outside 1..31 ends in an error and has no result.
C12_BadInputRejected ==
  ( /\ call.op \in {"prorate", "computeProrata"}
    /\ (CallAmount < 0 \/ CallAnchorDay \notin 1 .. 31) ) =>
    /\ "error" \in DOMAIN call
    /\ "result" \notin DOMAIN call

\* C13: in the vat view of formatProrataOutput, in Arabic and in English, the
\* three amounts are net = monthly + result.value, vat = net * 0.16 and
\* gross = net + vat, under the labels of the language.
C13_VatView ==
  (call.op = "formatProrataOutput" /\ call.formMode = "vat") =>
    LET r == call.result
        value == prorate(call.monthly, pivot, anchorDay, call.mode).value
        other == formatProrataOutput(IF call.lang = "ar" THEN "en" ELSE "ar",
                                     "vat", call.monthly,
                                     prorate(call.monthly, pivot, anchorDay, call.mode))
    IN /\ r.net = Sum(Milli(call.monthly), value)
       /\ r.vat = Prod(r.net, Milli(160))
       /\ r.gross = Sum(r.net, r.vat)
       /\ DOMAIN r.labels = {"net", "vat", "gross"}
       /\ r.labels = STR.vat[call.lang]
       /\ other.net = r.net /\ other.vat = r.vat /\ other.gross = r.gross
       /\ other.labels # r.labels

\* C13 witness: the Arabic vat view of 30.000 monthly with 5 of 31 days
\* remaining.
C13_Witness ==
  /\ call.op = "formatProrataOutput"
  /\ call.formMode = "vat"
  /\ call.lang = "ar"
  /\ call.monthly = 30000
  /\ call.result.net =
       Sum(Milli(30000), Prod(Milli(30000), Quot(Whole(5), Whole(31))))
  /\ call.result.gross = Sum(call.result.net, Prod(call.result.net, Milli(160)))

\* The number of requests of the client ip that passed checkRateLimit in
\* the window of time that ends now.
RECURSIVE PassedFrom(_, _)
PassedFrom(ip, i) ==
  IF i = 0 THEN 0 ELSE recent[ip][i] + PassedFrom(ip, i - 1)

PassedInWindow(ip) == PassedFrom(ip, RATE_LIMIT_WINDOW)

\* C14: in every interval of one window (60 seconds) at most
\* RATE_LIMIT_MAX_REQUESTS requests of one client pass checkRateLimit.
C14_AtMostTenPerMinute ==
  \A ip \in IPs : PassedInWindow(ip) <= RATE_LIMIT_MAX_REQUESTS

\* The date t is on the anchor day anchor, clamped to its month.
OnAnchor(t, anchor) == getUTCDate(t) = ClampedAnchor(t, anchor)

\* C15: the three dates computeProrata returns are consecutive monthly anchor
\* dates: cycleEndUTC is the first anchor date after the activation,
\* cycleStartUTC the anchor date one month before it and nextCycleEndUTC the
\* anchor date one month after it, each on the anchor day clamped to its
\* month, and cycleDays is the number of days from cycleStartUTC to
\* cycleEndUTC.
C15_ConsecutiveAnchors ==
  (call.op = "computeProrata" /\ CallAnchorDay \in 1 .. 31) =>
    LET r == call.result
        act == toUTC(call.input.activationDate)
        start == r.cycleStartUTC
        end == r.cycleEndUTC
        nextEnd == r.nextCycleEndUTC
    IN /\ OnAnchor(end, CallAnchorDay)
       /\ end > act
       /\ MonthIndex(end) - MonthIndex(act) \in {0, 1}
       /\ MonthIndex(end) = MonthIndex(act) + 1 =>
            getUTCDate(act) >= ClampedAnchor(act, CallAnchorDay)
       /\ OnAnchor(start, CallAnchorDay)
       /\ MonthIndex(start) = MonthIndex(end) - 1
       /\ OnAnchor(nextEnd, CallAnchorDay)
       /\ MonthIndex(nextEnd) = MonthIndex(end) + 1
       /\ r.cycleDays = DayOf(end) - DayOf(start)

\* The number of hundredths of a result of the price calculator.
Hundredths(x) == Scaled(Number(x), 100)

\* n hundredths is the exact value exact / scale rounded to two decimals
\* (either neighbour for a value half way between two), for a scale that is
\* a power of ten from 100 on.
RoundedToTwoDecimals(n, exact, scale) ==
  LET Off(d) == IF d < 0 THEN 0 - d ELSE d
  IN n >= 0 /\ 2 * Off(n * (scale \div 100) - exact) <= scale \div 100

CalculatorCalled == call.op = "calculateOrangePricing"

\* C16: for every finite base price A >= 0 calculateOrangePricing returns
\* base = A, nosB_Nos = A + (A/2 * 0.4616) + (A/2 * 0.16) (that is
\* A * 1.3108), voiceCallsOnly = A * 1.4616 and dataOnly = A * 1.16, each
\* rounded to two decimals; for a negative or non-finite A it throws and
\* returns no result.  (A is k thousandths, so the exact values are
\* k / 10^3, k * 13108 / 10^7, k * 14616 / 10^7 and k * 116 / 10^5.)
C16_CalculatorResults ==
  CalculatorCalled =>
    LET Holds(A, outcome) ==
          IF isFinite(A) /\ A.k >= 0
          THEN /\ DOMAIN outcome = {"returns"}
               /\ DOMAIN outcome.returns
                    = {"base", "nosB_Nos", "voiceCallsOnly", "dataOnly"}
               /\ RoundedToTwoDecimals(Hundredths(outcome.returns.base),
                                       A.k, 1000)
               /\ RoundedToTwoDecimals(Hundredths(outcome.returns.nosB_Nos),
                                       A.k * 13108, 10000000)
               /\ RoundedToTwoDecimals(
                    Hundredths(outcome.returns.voiceCallsOnly),
                    A.k * 14616, 10000000)
               /\ RoundedToTwoDecimals(Hundredths(outcome.returns.dataOnly),
                                       A.k * 116, 100000)
               /\ \A f \in DOMAIN outcome.returns :
                    Number(outcome.returns[f])
                      = NumDiv(NumberOf(Hundredths(outcome.returns[f])),
                               NumberOf(100))
          ELSE DOMAIN outcome = {"throws"}
    IN Holds(call.input.basePrice, call.outcome)

C16_Witness ==
  /\ CalculatorCalled
  /\ call.input.basePrice = Milli(3 * PriceStep)
  /\ "returns" \in DOMAIN call.outcome
  /\ Hundredths(call.outcome.returns.voiceCallsOnly) > 0

\* A step in which the fragment was read (on mount or by handleHashChange).
HashRead == last'.event \in {"mount", "hashchange"}

\* C17: whenever the fragment is (on mount) or has become (hashchange) one
\* of 'calculator', 'pro-rata', 'assistant', activeTab is set to it and for
\* 'assistant' the chat is opened; any other fragment leaves activeTab and
\* isChatOpen unchanged; activeTab is always one of the three tab names;
\* selecting a tab sets the fragment to that tab.
C17_HashDeepLinking ==
  /\ [](activeTab \in TabNames)
  /\ [][/\ HashRead /\ last'.hash \in TabNames
           => /\ last'.hash = hash'
              /\ activeTab' = last'.hash
              /\ (last'.hash = "assistant" => isChatOpen')
        /\ HashRead /\ last'.hash \notin TabNames
           => /\ activeTab' = activeTab
              /\ isChatOpen' = isChatOpen
        /\ last'.event = "handleTabChange"
           => /\ hash' = last'.value
              /\ activeTab' = last'.value]_vars

\* A link to #assistant has been followed from another tab with the chat
\* closed, and handled.
C17_Witness ==
  /\ last = [event |-> "hashchange", hash |-> "assistant"]
  /\ activeTab = "assistant"
  /\ isChatOpen
  /\ hashchange = 0

\* C18: in each version of the app store, after setTheme, setLocale,
\* addChatMessage or clearChatMessages the item saved in localStorage holds
\* the theme, locale and chatMessages of the store, so that no action on one
\* field reverts the saved value of another.
C18_SnapshotIsCurrent ==
  [][<<Memory, localStorage>>' # <<Memory, localStorage>>
       => localStorage' = Memory']_vars

\* C19: whenever an exchange started by handleSend has finished (isLoading
\* is false again), the chatMessages saved in localStorage are the
\* chatMessages of the store, the final text of the assistant reply
\* included.
C19_ChatHistoryPersisted ==
  (exchange.phase = "finished" /\ ~isLoading)
    => /\ localStorage # NoItem
       /\ localStorage.chatMessages = chatMessages

\* C20: in production no call of readDocs, upsertDocsFromTitles,
\* extractAndStoreDocs or getDocsFilePath creates or writes the docs file,
\* and upsertDocsFromTitles and extractAndStoreDocs return empty added and
\* updated lists.
C20_ReadOnlyInProduction ==
  [][isProd
       => /\ docsFile' = docsFile
          /\ docsCall'.op \in {"upsertDocsFromTitles", "extractAndStoreDocs"}
               => docsCall'.returns = [added |-> <<>>, updated |-> <<>>]]_vars

\* In production, with no docs file, the bundled docs have been read and
\* upsertDocsFromTitles or extractAndStoreDocs has been called since.
C20_Witness ==
  /\ isProd
  /\ docsFile = NoDocsFile
  /\ docsCall.op \in {"upsertDocsFromTitles", "extractAndStoreDocs"}

Answered == limiterVars' # limiterVars /\ now' = now

\* The window of the client ip is open: it has a record that has not expired.
InWindow(ip) == ip \in DOMAIN rateLimitMap /\ now <= rateLimitMap[ip].resetTime

\* C22: checkRateLimit is a fixed-window counter per IP.  A stored record
\* always has 1 <= count <= 10.  Within a window a request is admitted, and
\* counted, while fewer than 10 were admitted, and every later one is
\* rejected; the first request with now > resetTime (or of a client without
\* a record) is admitted and starts a window with count = 1 and
\* resetTime = now + RATE_LIMIT_WINDOW.
C22_FixedWindowCounter ==
  /\ [](\A ip \in DOMAIN rateLimitMap :
          /\ 1 <= rateLimitMap[ip].count
          /\ rateLimitMap[ip].count <= RATE_LIMIT_MAX_REQUESTS)
  /\ [][Answered =>
          LET Counted(ip, admitted) ==
                IF ~InWindow(ip)
                THEN /\ admitted
                     /\ rateLimitMap'[ip]
                          = [count |-> 1,
                             resetTime |-> now + RATE_LIMIT_WINDOW]
                ELSE /\ admitted
                          = (rateLimitMap[ip].count < RATE_LIMIT_MAX_REQUESTS)
                     /\ rateLimitMap'[ip].resetTime
                          = rateLimitMap[ip].resetTime
                     /\ rateLimitMap'[ip].count
                          = rateLimitMap[ip].count
                              + (IF admitted THEN 1 ELSE 0)
          IN Counted(request'.ip, request'.admitted)]_vars

\* C22 witness: a client has been rejected in a window that admitted ten of
\* its requests.
C22_Witness ==
  /\ request.ip \in IPs
  /\ ~request.admitted
  /\ rateLimitMap[request.ip].count = RATE_LIMIT_MAX_REQUESTS
  /\ now <= rateLimitMap[request.ip].resetTime

\* What the map holds for a client: its record, or nothing.
RecordOf(map, ip) == IF ip \in DOMAIN map THEN <<map[ip]>> ELSE <<>>

\* C23: a rejected request leaves the rate-limit state unchanged, and a
\* request of one IP never creates or changes the record of another; so a
\* request of a client that arrives after the resetTime of its record is
\* admitted, whatever the records of the other clients are.
C23_RejectionAndOthersUntouched ==
  [][Answered =>
       LET Framed(ip, admitted) ==
             /\ \A other \in IPs \ {ip} :
                  RecordOf(rateLimitMap', other) = RecordOf(rateLimitMap, other)
             /\ ~admitted => rateLimitMap' = rateLimitMap
             /\ (ip \in DOMAIN rateLimitMap
                   /\ now > rateLimitMap[ip].resetTime) => admitted
       IN Framed(request'.ip, request'.admitted)]_vars

\* C23 witness: a client whose window was full (its further requests were
\* rejected) has been admitted by its first request after resetTime, while
\* the window of another client is full.
C23_Witness ==
  /\ request.ip \in IPs
  /\ request.admitted
  /\ request.record.count = RATE_LIMIT_MAX_REQUESTS
  /\ now > request.record.resetTime
  /\ rateLimitMap[request.ip].count = 1
  /\ \E other \in DOMAIN rateLimitMap \ {request.ip} :
       /\ rateLimitMap[other].count = RATE_LIMIT_MAX_REQUESTS
       /\ now <= rateLimitMap[other].resetTime

\* C24: in calculateResult and calculate, for every activation date (one on
\* the 15th included) previousInvoice and nextInvoice are two consecutive
\* 15ths with the activation date between them, so cycleDays is between 28
\* and 31 and usedDays <= cycleDays.
C24_OneCycleAroundActivation ==
  (call.op \in {"calculateResult", "calculate"} /\ ~call.result.null) =>
    LET Around(r) ==
          /\ getUTCDate(r.previousInvoice) = 15
          /\ getUTCDate(r.nextInvoice) = 15
          /\ IsMidnight(r.previousInvoice)
          /\ IsMidnight(r.nextInvoice)
          /\ MonthIndex(r.nextInvoice) = MonthIndex(r.previousInvoice) + 1
          /\ r.previousInvoice <= r.activation
          /\ r.activation <= r.nextInvoice
          /\ r.cycleDays = (r.nextInvoice - r.previousInvoice) \div DAY
          /\ 28 <= r.cycleDays
          /\ r.cycleDays <= 31
          /\ r.usedDays <= r.cycleDays
    IN Around(call.result)

C26_StreamReassembled ==
  stream.phase = "finished" =>
    LET RECURSIVE Joined(_)
        Joined(deltas) ==
          IF deltas = <<>> THEN <<>> ELSE deltas[1] \o Joined(Tail(deltas))
    IN stream.content = Joined(stream.deltas)

====
